---- MODULE Spec2Model ----
(***************************************************************************)
(* A model of the BRC-20 indexer core of willeslau/ord:                    *)
(*   - Balance            (src/src/protocol/brc20/balance.rs)              *)
(*   - Tracker            (src/src/protocol/brc20/tracker.rs)              *)
(*   - BRC20 handler      (src/src/protocol/brc20/mod.rs)                  *)
(*   - InscriptionManager (src/src/protocol/handler.rs)                    *)
(* Amounts are u128 in the source; the model keeps the checked arithmetic  *)
(* and scales the width down to 0..MaxAmount.                              *)
(***************************************************************************)
EXTENDS Integers, Sequences, FiniteSets, TLC

\* ------------------------------------------------------------------ bounds

\* Stand-in for u128::MAX: checked_add reports overflow above it.
MaxAmount == 2

\* ------------------------------------------------------------- the universe

\* A String is a sequence of one-character strings.
Ordi == <<"o", "r", "d", "i">>
Pepe == <<"p", "e", "p", "e">>
Ticks == {Ordi}
Owners == {"A", "B"}
InscriptionIds == {"i1", "i2"}
Amounts == 0..MaxAmount

\* types.rs: TokenId { protocol, tick }
TokenId(p, t) == [protocol |-> p, tick |-> t]
Tokens == {TokenId("BRC20", t) : t \in Ticks}

\* types.rs payload structs
DeployPayload(t, lim, max) == [token_id |-> t, limit |-> lim, max |-> max]
MintPayload(t, amt) == [token_id |-> t, amount |-> amt]
TransferPayload(t, amt) == [token_id |-> t, amount |-> amt]

\* Option<T>
None == <<>>
Some(v) == <<v>>
is_some(o) == Len(o) = 1
unwrap(o) == o[1]

\* ------------------------------------------------------------------ Balance

BalanceNew(max) == [transferable_balance |-> 0, total_balance |-> 0, max |-> max]

\* #[derive(Default)]: zeros and max = None
BalanceDefault == BalanceNew(None)

\* u128::checked_add / u128::checked_sub
checked_add(a, b) == IF a + b > MaxAmount THEN None ELSE Some(a + b)
checked_sub(a, b) == IF a < b THEN None ELSE Some(a - b)

\* The outcome of a &mut self method: the returned Result and self afterwards.
BalRes(r, b) == [res |-> r, bal |-> b]

\* Faulty variant: the cap is never checked.
ensure_below_max_unchecked(self, balance) == "Ok"

ensure_below_max(self, balance) ==
  IF is_some(self.max) /\ unwrap(self.max) < balance
  THEN "ExceedsMaxBalance" ELSE "Ok"

\* Faulty variant: the amount is compared with transferable_balance.
ensure_can_transfer_transferable(self, amt) ==
  IF self.transferable_balance < amt THEN "TransferExceedingTotalBalance" ELSE "Ok"

ensure_can_transfer(self, amt) ==
  IF self.total_balance < amt THEN "TransferExceedingTotalBalance" ELSE "Ok"

\* Faulty variant: the I1 postcondition is never checked.
ensure_transfer_valid_unchecked(self) == "Ok"

\* Faulty variant: the I1 postcondition is off by one (>= for >).
ensure_transfer_valid_strict(self) ==
  IF self.transferable_balance >= self.total_balance
  THEN "InvalidAvailableBalance" ELSE "Ok"

ensure_transfer_valid(self) ==
  IF self.transferable_balance > self.total_balance
  THEN "InvalidAvailableBalance" ELSE "Ok"

decr_total(self, amt) ==
  LET new_balance == checked_sub(self.total_balance, amt) IN
  IF ~is_some(new_balance) THEN BalRes("BalanceUnderflow", self)
  ELSE BalRes("Ok", [self EXCEPT !.total_balance = unwrap(new_balance)])

decr_transferable(self, amt) ==
  IF ensure_can_transfer(self, amt) # "Ok"
  THEN BalRes(ensure_can_transfer(self, amt), self)
  ELSE LET new_balance == checked_sub(self.transferable_balance, amt) IN
       IF ~is_some(new_balance) THEN BalRes("BalanceUnderflow", self)
       ELSE LET s1 == [self EXCEPT !.transferable_balance = unwrap(new_balance)] IN
            BalRes(ensure_transfer_valid(s1), s1)

\* Faulty variant: the I1 check runs before the cap check.
incr_transferable_valid_first(self, amt) ==
  LET new_balance == checked_add(self.transferable_balance, amt) IN
  IF ~is_some(new_balance) THEN BalRes("BalanceUnderflow", self)
  ELSE IF unwrap(new_balance) > self.total_balance
  THEN BalRes("InvalidAvailableBalance", self)
  ELSE IF ensure_below_max(self, unwrap(new_balance)) # "Ok"
  THEN BalRes(ensure_below_max(self, unwrap(new_balance)), self)
  ELSE BalRes("Ok", [self EXCEPT !.transferable_balance = unwrap(new_balance)])

incr_transferable(self, amt) ==
  LET new_balance == checked_add(self.transferable_balance, amt) IN
  IF ~is_some(new_balance) THEN BalRes("BalanceUnderflow", self)
  ELSE IF ensure_below_max(self, unwrap(new_balance)) # "Ok"
  THEN BalRes(ensure_below_max(self, unwrap(new_balance)), self)
  ELSE LET s1 == [self EXCEPT !.transferable_balance = unwrap(new_balance)] IN
       BalRes(ensure_transfer_valid(s1), s1)

\* Faulty variant: the cap is compared with the amount before the sum is computed.
incr_total_cap_first(self, amt) ==
  IF ensure_below_max(self, amt) # "Ok" THEN BalRes(ensure_below_max(self, amt), self)
  ELSE IF ~is_some(checked_add(self.total_balance, amt)) THEN BalRes("BalanceOverflow", self)
  ELSE IF ensure_below_max(self, unwrap(checked_add(self.total_balance, amt))) # "Ok"
  THEN BalRes("ExceedsMaxBalance", self)
  ELSE BalRes("Ok", [self EXCEPT !.total_balance = unwrap(checked_add(self.total_balance, amt))])

\* Faulty variant: total_balance is assigned before the cap is checked.
incr_total_early_write(self, amt) ==
  LET new_balance == checked_add(self.total_balance, amt) IN
  IF ~is_some(new_balance) THEN BalRes("BalanceOverflow", self)
  ELSE LET s1 == [self EXCEPT !.total_balance = unwrap(new_balance)] IN
       BalRes(ensure_below_max(self, unwrap(new_balance)), s1)

incr_total(self, amt) ==
  LET new_balance == checked_add(self.total_balance, amt) IN
  IF ~is_some(new_balance) THEN BalRes("BalanceOverflow", self)
  ELSE IF ensure_below_max(self, unwrap(new_balance)) # "Ok"
  THEN BalRes(ensure_below_max(self, unwrap(new_balance)), self)
  ELSE BalRes("Ok", [self EXCEPT !.total_balance = unwrap(new_balance)])

\* ------------------------------------------------------------------ tables

\* A redb table is a partial function: its DOMAIN is the set of stored keys.
EmptyTable == <<>>
table_insert(tbl, k, v) == [x \in (DOMAIN tbl) \cup {k} |-> IF x = k THEN v ELSE tbl[x]]
table_remove(tbl, k) == [x \in (DOMAIN tbl) \ {k} |-> tbl[x]]
table_get(tbl, k) == IF k \in DOMAIN tbl THEN Some(tbl[k]) ELSE None

\* The three tables a Tracker borrows.
EmptyDb ==
  [user_balances_table |-> EmptyTable,
   token_balance_table |-> EmptyTable,
   token_transfer_table |-> EmptyTable]

\* storage.rs: UserBalanceKey { token, owner }
UserBalanceKey(token, owner) == [token |-> token, owner |-> owner]

\* ----------------------------------------------------------------- Tracker
\* Every table access returns Result<_, StorageError>.  The parameter f names
\* the access of the call (counted from 1 in program order) at which the store
\* fails (Some(n)); NoFault means the store works.  A call returns its Result
\* and the tables as the writes done before the return left them.

NoFault == None
TrRes(r, db) == [res |-> r, db |-> db]

token_exists(db, token_id) == is_some(table_get(db.token_balance_table, token_id))

get_token_balance(db, token_id) == unwrap(table_get(db.token_balance_table, token_id))

get_user_balance(db, key) ==
  LET v == table_get(db.user_balances_table, key) IN
  IF is_some(v) THEN unwrap(v) ELSE BalanceDefault

update_user_balance(db, key, balance) ==
  [db EXCEPT !.user_balances_table = table_insert(@, key, balance)]

update_token_balance(db, token_id, balance) ==
  [db EXCEPT !.token_balance_table = table_insert(@, token_id, balance)]

standard_check(db, token_id) ==
  IF ~token_exists(db, token_id) THEN "TokenNotExists" ELSE "Ok"

\* Faulty variant: the token row is written without looking for an earlier one.
deploy_overwrite(db, owner, payload, f) ==
  TrRes("Ok", update_token_balance(db, payload.token_id, BalanceNew(Some(payload.max))))

deploy(db, owner, payload, f) ==
  IF f = Some(1) THEN TrRes("Storage", db)
  ELSE IF token_exists(db, payload.token_id) THEN TrRes("DuplicatedTokenDeployment", db)
  ELSE IF f = Some(2) THEN TrRes("Storage", db)
  ELSE TrRes("Ok", update_token_balance(db, payload.token_id, BalanceNew(Some(payload.max))))

\* Faulty variant: the user balance is persisted before the token balance is checked.
mint_inner_early_write(db, key, amount, f) ==
  LET user_balance == incr_total(get_user_balance(db, key), amount) IN
  IF user_balance.res # "Ok" THEN TrRes(user_balance.res, db) ELSE
  LET db1 == update_user_balance(db, key, user_balance.bal)
      token_balance == incr_total(get_token_balance(db, key.token), amount) IN
  IF token_balance.res # "Ok" THEN TrRes(token_balance.res, db1) ELSE
  TrRes("Ok", update_token_balance(db1, key.token, token_balance.bal))

mint_inner(db, key, amount, f) ==
  IF f = Some(2) THEN TrRes("Storage", db) ELSE
  LET user_balance == incr_total(get_user_balance(db, key), amount) IN
  IF user_balance.res # "Ok" THEN TrRes(user_balance.res, db) ELSE
  IF f = Some(3) THEN TrRes("Storage", db) ELSE
  LET token_balance == incr_total(get_token_balance(db, key.token), amount) IN
  IF token_balance.res # "Ok" THEN TrRes(token_balance.res, db) ELSE
  IF f = Some(4) THEN TrRes("Storage", db) ELSE
  LET db1 == update_user_balance(db, key, user_balance.bal) IN
  IF f = Some(5) THEN TrRes("Storage", db1) ELSE
  TrRes("Ok", update_token_balance(db1, key.token, token_balance.bal))

mint(db, owner, payload, f) ==
  IF f = Some(1) THEN TrRes("Storage", db)
  ELSE IF standard_check(db, payload.token_id) # "Ok"
  THEN TrRes(standard_check(db, payload.token_id), db)
  ELSE mint_inner(db, UserBalanceKey(payload.token_id, owner), payload.amount, f)

\* Faulty variant: the moved amount is also taken off the token's global balance.
transfer_inner_token_debit(db, from, to, amount, f) ==
  LET d1 == decr_transferable(get_user_balance(db, from), amount) IN
  IF d1.res # "Ok" THEN TrRes(d1.res, db) ELSE
  LET from_balance == decr_total(d1.bal, amount) IN
  IF from_balance.res # "Ok" THEN TrRes(from_balance.res, db) ELSE
  LET to_balance == incr_total(get_user_balance(db, to), amount) IN
  IF to_balance.res # "Ok" THEN TrRes(to_balance.res, db) ELSE
  LET db1 == update_user_balance(db, from, from_balance.bal)
      db2 == update_user_balance(db1, to, to_balance.bal)
  IN TrRes("Ok", update_token_balance(db2, from.token,
                   decr_total(get_token_balance(db, from.token), amount).bal))

transfer_inner(db, from, to, amount, f) ==
  IF f = Some(2) THEN TrRes("Storage", db) ELSE
  LET d1 == decr_transferable(get_user_balance(db, from), amount) IN
  IF d1.res # "Ok" THEN TrRes(d1.res, db) ELSE
  LET from_balance == decr_total(d1.bal, amount) IN
  IF from_balance.res # "Ok" THEN TrRes(from_balance.res, db) ELSE
  IF f = Some(3) THEN TrRes("Storage", db) ELSE
  LET to_balance == incr_total(get_user_balance(db, to), amount) IN
  IF to_balance.res # "Ok" THEN TrRes(to_balance.res, db) ELSE
  IF f = Some(4) THEN TrRes("Storage", db) ELSE
  LET db1 == update_user_balance(db, from, from_balance.bal) IN
  IF f = Some(5) THEN TrRes("Storage", db1) ELSE
  TrRes("Ok", update_user_balance(db1, to, to_balance.bal))

\* Faulty variant: the marker is left in the transfer table.
transfer_keep_marker(db, from, to, inscription_id, f) ==
  LET found == table_get(db.token_transfer_table, inscription_id) IN
  IF ~is_some(found) THEN TrRes("Ok", db) ELSE
  transfer_inner(db, UserBalanceKey(unwrap(found).token_id, from),
                 UserBalanceKey(unwrap(found).token_id, to), unwrap(found).amount, f)

\* Faulty variant: a missing marker is reported as an error.
transfer_absent_fails(db, from, to, inscription_id, f) ==
  LET found == table_get(db.token_transfer_table, inscription_id) IN
  IF ~is_some(found) THEN TrRes("TokenNotExists", db) ELSE
  LET r == transfer_inner(db, UserBalanceKey(unwrap(found).token_id, from),
                          UserBalanceKey(unwrap(found).token_id, to), unwrap(found).amount, f)
  IN IF r.res # "Ok" THEN r
     ELSE TrRes("Ok", [r.db EXCEPT !.token_transfer_table = table_remove(@, inscription_id)])

\* Faulty variant: the marker is removed before the balances are moved.
transfer_marker_first(db, from, to, inscription_id, f) ==
  LET found == table_get(db.token_transfer_table, inscription_id) IN
  IF ~is_some(found) THEN TrRes("Ok", db) ELSE
  transfer_inner([db EXCEPT !.token_transfer_table = table_remove(@, inscription_id)],
                 UserBalanceKey(unwrap(found).token_id, from),
                 UserBalanceKey(unwrap(found).token_id, to), unwrap(found).amount, f)

transfer(db, from, to, inscription_id, f) ==
  IF f = Some(1) THEN TrRes("Storage", db) ELSE
  LET found == table_get(db.token_transfer_table, inscription_id) IN
  IF ~is_some(found) THEN TrRes("Ok", db) ELSE
  LET token_id == unwrap(found).token_id
      amt == unwrap(found).amount
      r == transfer_inner(db, UserBalanceKey(token_id, from),
                          UserBalanceKey(token_id, to), amt, f)
  IN IF r.res # "Ok" THEN r
     ELSE IF f = Some(6) THEN TrRes("Storage", r.db)
     ELSE TrRes("Ok", [r.db EXCEPT !.token_transfer_table = table_remove(@, inscription_id)])

\* Faulty variant: the balance is persisted whatever incr_transferable returned.
inscribe_transfer_inner_early_write(db, key, amount, f) ==
  LET user_balance == incr_transferable(get_user_balance(db, key), amount) IN
  TrRes(user_balance.res, update_user_balance(db, key, user_balance.bal))

inscribe_transfer_inner(db, key, amount, f) ==
  IF f = Some(2) THEN TrRes("Storage", db) ELSE
  LET user_balance == incr_transferable(get_user_balance(db, key), amount) IN
  IF user_balance.res # "Ok" THEN TrRes(user_balance.res, db) ELSE
  IF f = Some(3) THEN TrRes("Storage", db) ELSE
  TrRes("Ok", update_user_balance(db, key, user_balance.bal))

\* Faulty variant: standard_check is left out.
inscribe_transfer_unchecked(db, owner, inscription_id, payload, f) ==
  LET r == inscribe_transfer_inner(db, UserBalanceKey(payload.token_id, owner),
                                   payload.amount, f)
  IN IF r.res # "Ok" THEN r
     ELSE TrRes("Ok", [r.db EXCEPT !.token_transfer_table =
                         table_insert(@, inscription_id, payload)])

inscribe_transfer(db, owner, inscription_id, payload, f) ==
  IF f = Some(1) THEN TrRes("Storage", db)
  ELSE IF standard_check(db, payload.token_id) # "Ok"
  THEN TrRes(standard_check(db, payload.token_id), db)
  ELSE LET r == inscribe_transfer_inner(db, UserBalanceKey(payload.token_id, owner),
                                        payload.amount, f)
       IN IF r.res # "Ok" THEN r
          ELSE IF f = Some(4) THEN TrRes("Storage", r.db)
          ELSE TrRes("Ok", [r.db EXCEPT !.token_transfer_table =
                               table_insert(@, inscription_id, payload)])

\* ---------------------------------------------------------- payload parser
\* An inscription body is a JSON object: a record of String fields, the tag
\* "op" being an atomic string.

DigitValue(c) ==
  CASE c = "0" -> 0 [] c = "1" -> 1 [] c = "2" -> 2 [] c = "3" -> 3 [] c = "4" -> 4
    [] c = "5" -> 5 [] c = "6" -> 6 [] c = "7" -> 7 [] c = "8" -> 8 [] c = "9" -> 9
    [] OTHER -> -1

RECURSIVE from_digits(_, _)
\* The value of the digits of s read after acc, None on a non-digit or on overflow.
from_digits(s, acc) ==
  IF s = <<>> THEN Some(acc)
  ELSE IF DigitValue(Head(s)) < 0 THEN None
  ELSE IF acc * 10 + DigitValue(Head(s)) > MaxAmount THEN None
  ELSE from_digits(Tail(s), acc * 10 + DigitValue(Head(s)))

\* u128::from_str: an optional '+', then at least one decimal digit.
u128_from_str(s) ==
  LET digits == IF s # <<>> /\ Head(s) = "+" THEN Tail(s) ELSE s IN
  IF digits = <<>> THEN None ELSE from_digits(digits, 0)

ParseOk(v) == [res |-> "Ok", value |-> v]
ParseErr(e) == [res |-> e]

parse_u128(s) ==
  IF is_some(u128_from_str(s)) THEN ParseOk(unwrap(u128_from_str(s)))
  ELSE ParseErr("InvalidBalance")

\* str::to_lowercase over the letters the model uses
LowerChar(c) ==
  CASE c = "B" -> "b" [] c = "R" -> "r" [] c = "C" -> "c" [] c = "F" -> "f"
    [] c = "O" -> "o" [] OTHER -> c
to_lowercase(s) == [i \in 1..Len(s) |-> LowerChar(s[i])]

\* Faulty variant: every protocol string is taken for BRC20.
protocol_deserialize_lenient(s) == ParseOk("BRC20")

\* Faulty variant: the protocol string is compared without to_lowercase.
protocol_deserialize_case_sensitive(s) ==
  IF s \in {<<"b", "r", "c", "2", "0">>, <<"b", "r", "c", "-", "2", "0">>, <<"0">>}
  THEN ParseOk("BRC20") ELSE ParseErr("UnknownProtocol")

\* impl Deserialize for Protocol
protocol_deserialize(s) ==
  IF to_lowercase(s) \in {<<"b", "r", "c", "2", "0">>, <<"b", "r", "c", "-", "2", "0">>, <<"0">>}
  THEN ParseOk("BRC20") ELSE ParseErr("UnknownProtocol")

MAX_BRC20_TICK_SIZE == 4

\* impl Deserialize for TokenId (the flattened fields p and tick)
token_id_deserialize(body) ==
  IF ~({"p", "tick"} \subseteq DOMAIN body) THEN ParseErr("InvalidInscriptionPayload")
  ELSE LET p == protocol_deserialize(body.p) IN
       IF p.res # "Ok" THEN p
       ELSE IF p.value = "BRC20" /\ Len(body.tick) > MAX_BRC20_TICK_SIZE
       THEN ParseErr("InvalidTickLength")
       ELSE ParseOk(TokenId(p.value, body.tick))

\* The first error among the amount fields that are present, in the order given.
RECURSIVE amounts_error(_, _)
amounts_error(body, names) ==
  IF names = <<>> THEN "Ok"
  ELSE IF Head(names) \in DOMAIN body /\ parse_u128(body[Head(names)]).res # "Ok"
  THEN parse_u128(body[Head(names)]).res
  ELSE amounts_error(body, Tail(names))

\* serde_json::from_slice::<InscriptionPayload>, with brc20::Error::from applied
\* to its error: the tag, the amount fields, then the flattened token id.
from_slice(body) ==
  IF "op" \notin DOMAIN body \/ body.op \notin {"deploy", "mint", "transfer"}
  THEN ParseErr("InvalidInscriptionPayload")
  ELSE LET names == IF body.op = "deploy" THEN <<"lim", "max">> ELSE <<"amt">>
           t == token_id_deserialize(body)
       IN IF amounts_error(body, names) # "Ok" THEN ParseErr(amounts_error(body, names))
          ELSE IF \E i \in 1..Len(names) : names[i] \notin DOMAIN body
          THEN ParseErr("InvalidInscriptionPayload")
          ELSE IF t.res # "Ok" THEN t
          ELSE IF body.op = "deploy"
          THEN ParseOk([op |-> "deploy",
                        payload |-> DeployPayload(t.value, parse_u128(body.lim).value,
                                                  parse_u128(body.max).value)])
          ELSE ParseOk([op |-> body.op,
                        payload |-> [token_id |-> t.value, amount |-> parse_u128(body.amt).value]])

\* u128::to_string: the decimal digits, most significant first.
DigitChar(d) ==
  CASE d = 0 -> "0" [] d = 1 -> "1" [] d = 2 -> "2" [] d = 3 -> "3" [] d = 4 -> "4"
    [] d = 5 -> "5" [] d = 6 -> "6" [] d = 7 -> "7" [] d = 8 -> "8" [] d = 9 -> "9"

RECURSIVE u128_to_string(_)
u128_to_string(x) ==
  IF x < 10 THEN <<DigitChar(x)>>
  ELSE Append(u128_to_string(x \div 10), DigitChar(x % 10))

\* u128_serialize: the amount as a JSON string
u128_serialize(x) == u128_to_string(x)

\* #[derive(Serialize)] on Protocol: a unit variant is written as its name.
protocol_serialize(protocol) == <<"B", "R", "C", "2", "0">>

\* impl RedbValue for Transfer, as_bytes: serde_json::to_vec of the derived
\* Serialize (the flattened token id, then amt).
transfer_as_bytes(value) ==
  [p |-> protocol_serialize(value.token_id.protocol), tick |-> value.token_id.tick,
   amt |-> u128_serialize(value.amount)]

\* #[derive(Deserialize)] on Transfer: amt, then the flattened token id.
transfer_deserialize(body) ==
  IF amounts_error(body, <<"amt">>) # "Ok" THEN ParseErr(amounts_error(body, <<"amt">>))
  ELSE IF "amt" \notin DOMAIN body THEN ParseErr("InvalidInscriptionPayload")
  ELSE IF token_id_deserialize(body).res # "Ok" THEN token_id_deserialize(body)
  ELSE ParseOk(TransferPayload(token_id_deserialize(body).value, parse_u128(body.amt).value))

\* impl RedbValue for Transfer, from_bytes: serde_json::from_slice(..).unwrap()
transfer_from_bytes(data) ==
  IF transfer_deserialize(data).res = "Ok" THEN transfer_deserialize(data)
  ELSE [res |-> "panic"]

\* The serialization of a parsed InscriptionPayload, where the type has one:
\* Transfer derives Serialize; Deploy, Mint and InscriptionPayload do not.
payload_serialize(parsed) ==
  IF parsed.op = "transfer" THEN Some(transfer_as_bytes(parsed.payload)) ELSE None

\* --------------------------------------------------------- protocol errors
\* error.rs: Error::{NonBlocking, Blocking} and the From conversions.

OkResult == [class |-> "Ok"]
nonblocking_bug == [class |-> "NonBlocking", kind |-> "Bug"]
BlockingStorage == [class |-> "Blocking", kind |-> "Storage"]
BlockingOutpointNotFound(o) == [class |-> "Blocking", kind |-> "OutpointNotFound", outpoint |-> o]
BlockingInvalidAddressNetwork == [class |-> "Blocking", kind |-> "InvalidAddressNetwork"]

\* impl From<BRC20Error> for Error: every BRC-20 error, Storage included
from_brc20_error(e) == [class |-> "NonBlocking", kind |-> "BRC20", error |-> e]

\* The `?` on a Result<(), BRC20Error> inside a function returning protocol::Result
brc20_result(r) == IF r = "Ok" THEN OkResult ELSE from_brc20_error(r)

\* ------------------------------------------------- BRC20InscriptionHandler

HRes(r, db) == [res |-> r, db |-> db]

\* A Tracker result seen through the `?` of the handler.
tracker_result(r) == HRes(brc20_result(r.res), r.db)

\* The match on the parsed payload in handle_new.
handle_payload(db, event, parsed, f) ==
  IF parsed.res # "Ok" THEN HRes(from_brc20_error(parsed.res), db)
  ELSE CASE parsed.value.op = "deploy" ->
              tracker_result(deploy(db, event.owner, parsed.value.payload, f))
         [] parsed.value.op = "mint" ->
              tracker_result(mint(db, event.owner, parsed.value.payload, f))
         [] parsed.value.op = "transfer" ->
              tracker_result(inscribe_transfer(db, event.owner, event.inscription_id,
                                               parsed.value.payload, f))

\* Faulty variant: an inscription without a body is refused as an invalid payload.
brc20_handle_new_body_required(db, event, f) ==
  IF ~is_some(event.inscription.body)
  THEN HRes(from_brc20_error("InvalidInscriptionPayload"), db)
  ELSE handle_payload(db, event, from_slice(unwrap(event.inscription.body)), f)

brc20_handle_new(db, event, f) ==
  IF ~is_some(event.inscription.body) THEN HRes(OkResult, db)
  ELSE handle_payload(db, event, from_slice(unwrap(event.inscription.body)), f)

brc20_handle_transfer(db, event, f) ==
  tracker_result(transfer(db, event.from, event.to, event.inscription_id, f))

\* ------------------------------------------------------ InscriptionManager
\* bitcoin types: an OutPoint is (txid, vout); a SatPoint an OutPoint and an
\* offset (not read by this code); a TxIn carries its previous_output, a TxOut
\* its script_pubkey; a Transaction its inputs, outputs and, through
\* ParsedEnvelope::from_transaction, its inscriptions.

OutPoint(txid, vout) == [txid |-> txid, vout |-> vout]
NullOutPoint == OutPoint("null", "max")
is_null(o) == o = NullOutPoint
SatPoint(o) == [outpoint |-> o]
InscriptionId(txid, index) == [txid |-> txid, index |-> index]
TxIn(o) == [previous_output |-> o]
Inscription(body) == [body |-> body]

NewEvent(prev, id, sat) ==
  [type |-> "New", prev_txn_outpoint |-> prev, inscription_id |-> id, satpoint |-> sat]
TransferEvent(prev, new, id) ==
  [type |-> "Transfer", prev_satpoint |-> prev, new_satpoint |-> new, inscription_id |-> id]

\* mod.rs: InscriptionEvent::prev_outpoint / current_outpoint
prev_outpoint(e) ==
  IF e.type = "New" THEN e.prev_txn_outpoint ELSE e.prev_satpoint.outpoint
current_outpoint(e) ==
  IF e.type = "New" THEN e.satpoint.outpoint ELSE e.new_satpoint.outpoint

\* Address::from_script under the configured network: a script that pays to an
\* address yields it, any other script is an error.
Addresses == {"A", "B"}
address_from_script(script) == IF script \in Addresses THEN Some(script) ELSE None

\* The fault injected into one process() call: none, or one failing store access.
\*   store:   store_outpoint_to_script fails for transaction txid after the
\*            entries in done were written (HashMap iteration order is arbitrary)
\*   get:     get_script_from_outpoint fails in the at-th process_event call
\*   tracker: the access-th table access of handler's Tracker call fails in the
\*            at-th process_event call
NoFaultPlan == [kind |-> "none"]
tracker_fault(fault, n, h) ==
  IF fault.kind = "tracker" /\ fault.at = n /\ fault.handler = h
  THEN Some(fault.access) ELSE NoFault

\* What a process() call has done so far: the outpoint table, each handler's
\* tables, the events given to process_event and the calls made to handlers.
MRes(r, st) == [res |-> r, st |-> st]

\* The state after handler h returned r from the call named call; the call is
\* noted with the outpoint table as it was when the handler ran.
called(st, call, h, event, n, r) ==
  [st EXCEPT !.handlers[h] = r.db,
             !.calls = Append(@, [call |-> call, handler |-> h, n |-> n,
                                  event |-> event, res |-> r.res,
                                  table |-> st.outpoint_to_address])]

\* handle_new: the loop over the handlers from the h-th on; a NonBlocking
\* error is dropped, a Blocking one returned.
RECURSIVE handle_new_from(_, _, _, _, _)
RECURSIVE handle_new_match(_, _, _, _, _, _)
handle_new_match(st, h, event, n, fault, r) ==
  IF r.res.class = "Blocking" THEN MRes(r.res, called(st, "handle_new", h, event, n, r))
  ELSE handle_new_from(called(st, "handle_new", h, event, n, r), h + 1, event, n, fault)

handle_new_from(st, h, event, n, fault) ==
  IF h > Len(st.handlers) THEN MRes(OkResult, st)
  ELSE handle_new_match(st, h, event, n, fault,
         brc20_handle_new(st.handlers[h], event, tracker_fault(fault, n, h)))

handle_new(st, event, n, fault) == handle_new_from(st, 1, event, n, fault)

\* handle_transfer: the loop over the handlers from the h-th on; the `?`
\* returns any error.
RECURSIVE handle_transfer_from(_, _, _, _, _)
RECURSIVE handle_transfer_try(_, _, _, _, _, _)
handle_transfer_try(st, h, event, n, fault, r) ==
  IF r.res.class # "Ok" THEN MRes(r.res, called(st, "handle_transfer", h, event, n, r))
  ELSE handle_transfer_from(called(st, "handle_transfer", h, event, n, r), h + 1, event, n, fault)

handle_transfer_from(st, h, event, n, fault) ==
  IF h > Len(st.handlers) THEN MRes(OkResult, st)
  ELSE handle_transfer_try(st, h, event, n, fault,
         brc20_handle_transfer(st.handlers[h], event, tracker_fault(fault, n, h)))

handle_transfer(st, event, n, fault) == handle_transfer_from(st, 1, event, n, fault)

\* Faulty variant: a Transfer whose previous outpoint has no stored address is
\* handed to the handlers with the receiver standing in for the sender.
process_event_from_missing(st, event, inscriptions, ownerships, fault) ==
  LET n == Len(st.dispatched) + 1
      st0 == [st EXCEPT !.dispatched = Append(@, event)]
  IN IF event.type = "New"
     THEN IF event.inscription_id.index >= Len(inscriptions) THEN MRes(nonblocking_bug, st0)
          ELSE handle_new(st0,
                 [prev_txn_outpoint |-> event.prev_txn_outpoint,
                  satpoint |-> event.satpoint,
                  owner |-> ownerships[event.satpoint.outpoint],
                  inscription_id |-> event.inscription_id,
                  inscription |-> inscriptions[event.inscription_id.index + 1]],
                 n, fault)
     ELSE IF fault.kind = "get" /\ fault.at = n THEN MRes(BlockingStorage, st0)
          ELSE LET from == table_get(st0.outpoint_to_address, event.prev_satpoint.outpoint) IN
               handle_transfer(st0,
                 [prev_satpoint |-> event.prev_satpoint,
                  new_satpoint |-> event.new_satpoint,
                  from |-> IF is_some(from) THEN unwrap(from)
                           ELSE ownerships[event.new_satpoint.outpoint],
                  to |-> ownerships[event.new_satpoint.outpoint],
                  inscription_id |-> event.inscription_id],
                 n, fault)

process_event(st, event, inscriptions, ownerships, fault) ==
  LET n == Len(st.dispatched) + 1
      st0 == [st EXCEPT !.dispatched = Append(@, event)]
  IN IF event.type = "New"
     THEN IF event.inscription_id.index >= Len(inscriptions) THEN MRes(nonblocking_bug, st0)
          ELSE handle_new(st0,
                 [prev_txn_outpoint |-> event.prev_txn_outpoint,
                  satpoint |-> event.satpoint,
                  owner |-> ownerships[event.satpoint.outpoint],
                  inscription_id |-> event.inscription_id,
                  inscription |-> inscriptions[event.inscription_id.index + 1]],
                 n, fault)
     ELSE IF fault.kind = "get" /\ fault.at = n THEN MRes(BlockingStorage, st0)
          ELSE LET from == table_get(st0.outpoint_to_address, event.prev_satpoint.outpoint) IN
               IF ~is_some(from)
               THEN MRes(BlockingOutpointNotFound(event.prev_satpoint.outpoint), st0)
               ELSE handle_transfer(st0,
                      [prev_satpoint |-> event.prev_satpoint,
                       new_satpoint |-> event.new_satpoint,
                       from |-> unwrap(from),
                       to |-> ownerships[event.new_satpoint.outpoint],
                       inscription_id |-> event.inscription_id],
                      n, fault)

\* The first loop of track_outpoint_ownerships: the map, or the first error.
RECURSIVE ownership_map(_, _, _, _)
ownership_map(events, j, outpoints, map) ==
  IF j > Len(events) THEN [res |-> OkResult, map |-> map]
  ELSE LET cur_output == current_outpoint(events[j]) IN
       IF cur_output.vout < Len(outpoints)
       THEN LET address == address_from_script(outpoints[cur_output.vout + 1].script_pubkey) IN
            IF ~is_some(address) THEN [res |-> BlockingInvalidAddressNetwork, map |-> map]
            ELSE ownership_map(events, j + 1, outpoints,
                               table_insert(map, cur_output, unwrap(address)))
       ELSE [res |-> BlockingOutpointNotFound(cur_output), map |-> map]

\* The table after the entries of map with keys in keys were stored.
store_all(table, map, keys) ==
  [o \in (DOMAIN table) \cup keys |-> IF o \in keys THEN map[o] ELSE table[o]]

\* Returns res, the ownerships map and the state.
\* Faulty variant: the ownerships are memoized in the map and never persisted.
store_ownerships_memo_only(st, txid, m, fault) ==
  [res |-> m.res, map |-> m.map, st |-> st]

\* Faulty variant: the entries gathered before an error are persisted.
store_ownerships_on_error(st, txid, m, fault) ==
  [res |-> m.res, map |-> m.map,
   st |-> [st EXCEPT !.outpoint_to_address = store_all(@, m.map, DOMAIN m.map)]]

store_ownerships(st, txid, m, fault) ==
  IF m.res.class # "Ok" THEN [res |-> m.res, map |-> m.map, st |-> st]
  ELSE IF fault.kind = "store" /\ fault.txid = txid /\ DOMAIN m.map # {}
  THEN [res |-> BlockingStorage, map |-> m.map,
        st |-> [st EXCEPT !.outpoint_to_address =
                            store_all(@, m.map, fault.done \cap DOMAIN m.map)]]
  ELSE [res |-> OkResult, map |-> m.map,
        st |-> [st EXCEPT !.outpoint_to_address = store_all(@, m.map, DOMAIN m.map)]]

track_outpoint_ownerships(st, txid, events, outpoints, fault) ==
  store_ownerships(st, txid, ownership_map(events, 1, outpoints, EmptyTable), fault)

\* The inner loop of process_txn: the events scanned for one input.
RECURSIVE scan_events(_, _, _, _, _, _, _)
RECURSIVE scan_events_try(_, _, _, _, _, _, _)
\* the `?` on process_event, r being what it returned
scan_events_try(r, input, events, j, inscriptions, ownerships, fault) ==
  IF r.res.class # "Ok" THEN r
  ELSE scan_events(r.st, input, events, j + 1, inscriptions, ownerships, fault)

scan_events(st, input, events, j, inscriptions, ownerships, fault) ==
  IF j > Len(events) THEN MRes(OkResult, st)
  ELSE IF prev_outpoint(events[j]) # input.previous_output THEN MRes(OkResult, st)
  ELSE scan_events_try(process_event(st, events[j], inscriptions, ownerships, fault),
                       input, events, j, inscriptions, ownerships, fault)

\* The outer loop of process_txn: the inputs in order.
RECURSIVE scan_inputs(_, _, _, _, _, _)
RECURSIVE scan_inputs_try(_, _, _, _, _, _)
scan_inputs_try(r, txn, i, events, ownerships, fault) ==
  IF r.res.class # "Ok" THEN r
  ELSE scan_inputs(r.st, txn, i + 1, events, ownerships, fault)

\* Faulty variant: only the input at i is visited, the later ones are left out.
scan_inputs_first_only(st, txn, i, events, ownerships, fault) ==
  IF i > Len(txn.input) THEN MRes(OkResult, st)
  ELSE scan_events(st, txn.input[i], events, 1, txn.inscriptions, ownerships, fault)

scan_inputs(st, txn, i, events, ownerships, fault) ==
  IF i > Len(txn.input) THEN MRes(OkResult, st)
  ELSE scan_inputs_try(
         scan_events(st, txn.input[i], events, 1, txn.inscriptions, ownerships, fault),
         txn, i, events, ownerships, fault)

\* process_txn after track_outpoint_ownerships returned own
process_txn_try(own, txn, events, fault) ==
  IF own.res.class # "Ok" THEN MRes(own.res, own.st)
  ELSE scan_inputs(own.st, txn, 1, events, own.map, fault)

process_txn(st, txn, all_events, fault) ==
  IF txn.txid \notin DOMAIN all_events THEN MRes(OkResult, st)
  ELSE process_txn_try(
         track_outpoint_ownerships(st, txn.txid, all_events[txn.txid], txn.output, fault),
         txn, all_events[txn.txid], fault)

\* Faulty variant: no transaction is taken for a coinbase.
is_coinbase_never(txn) == FALSE

is_coinbase(txn) == Len(txn.input) > 0 /\ is_null(txn.input[1].previous_output)

RECURSIVE process_from(_, _, _, _, _)
RECURSIVE process_try(_, _, _, _, _)
\* the `?` on process_txn, r being what it returned
\* Faulty variant: an error of a transaction is dropped and the next one processed.
process_try_continue(r, txns, k, all_events, fault) ==
  process_from(r.st, txns, k + 1, all_events, fault)

process_try(r, txns, k, all_events, fault) ==
  IF r.res.class # "Ok" THEN r
  ELSE process_from(r.st, txns, k + 1, all_events, fault)

process_from(st, txns, k, all_events, fault) ==
  IF k > Len(txns) THEN MRes(OkResult, st)
  ELSE IF is_coinbase(txns[k]) THEN process_from(st, txns, k + 1, all_events, fault)
  ELSE process_try(process_txn(st, txns[k], all_events, fault), txns, k, all_events, fault)

process(st, txns, all_events, fault) == process_from(st, txns, 1, all_events, fault)

\* record_event: push onto the transaction's list, created on first use.
record_event(all_events, txid, event) ==
  IF txid \in DOMAIN all_events
  THEN [all_events EXCEPT ![txid] = Append(@, event)]
  ELSE table_insert(all_events, txid, <<event>>)

\* -------------------------------------------------------------- variables

VARIABLES
  db,                   \* the three BRC-20 tables of the Tracker
  last,                 \* the last call: operation, arguments, Result
  txns,                 \* InscriptionManager.txns
  events,               \* InscriptionManager.events: Txid -> Vec<InscriptionEvent>
  outpoint_to_address,  \* the outpoint table behind InscriptionManager.storage
  handlers,             \* InscriptionManager.handlers: each handler's tables
  phase,                \* "idle", "recording" (before process()), "done" (after)
  result,               \* what process() returned
  dispatched,           \* the events process() gave to process_event, in order
  calls,                \* the handler calls process() made, in order
  inscribed             \* the inscription ids the host gave to inscribe_transfer, where it
                        \* gives each id once

tracker_vars == <<db, last>>
manager_vars == <<txns, events, outpoint_to_address, handlers, phase, result, dispatched, calls>>
vars ==
  <<db, last, txns, events, outpoint_to_address, handlers, phase, result, dispatched, calls,
    inscribed>>

NoCall == [op |-> "none", res |-> "Ok"]

\* ------------------------------------------------- the Tracker state machine
\* One Tracker over a store that works, driven by arbitrary calls.

Init ==
  /\ db = EmptyDb
  /\ last = NoCall
  /\ txns = <<>>
  /\ events = EmptyTable
  /\ outpoint_to_address = EmptyTable
  /\ handlers = <<>>
  /\ phase = "idle"
  /\ result = OkResult
  /\ dispatched = <<>>
  /\ calls = <<>>
  /\ inscribed = {}

Deploy ==
  \E owner \in Owners, t \in Tokens, lim \in {0, MaxAmount}, max \in Amounts :
    LET r == deploy(db, owner, DeployPayload(t, lim, max), NoFault) IN
    /\ db' = r.db
    /\ last' = [op |-> "deploy", owner |-> owner, token_id |-> t, limit |-> lim,
                max |-> max, res |-> r.res]
    /\ UNCHANGED <<manager_vars, inscribed>>

Mint ==
  \E owner \in Owners, t \in Tokens, amt \in Amounts :
    LET r == mint(db, owner, MintPayload(t, amt), NoFault) IN
    /\ db' = r.db
    /\ last' = [op |-> "mint", owner |-> owner, token_id |-> t, amount |-> amt, res |-> r.res]
    /\ UNCHANGED <<manager_vars, inscribed>>

InscribeTransfer ==
  \E owner \in Owners, i \in InscriptionIds, t \in Tokens, amt \in Amounts :
    LET r == inscribe_transfer(db, owner, i, TransferPayload(t, amt), NoFault) IN
    /\ db' = r.db
    /\ last' = [op |-> "inscribe_transfer", owner |-> owner, inscription_id |-> i,
                token_id |-> t, amount |-> amt, res |-> r.res]
    /\ UNCHANGED <<manager_vars, inscribed>>

Transfer ==
  \E from \in Owners, to \in Owners, i \in InscriptionIds :
    LET r == transfer(db, from, to, i, NoFault) IN
    /\ db' = r.db
    /\ last' = [op |-> "transfer", from |-> from, to |-> to, inscription_id |-> i,
                res |-> r.res]
    /\ UNCHANGED <<manager_vars, inscribed>>

Next == Deploy \/ Mint \/ InscribeTransfer \/ Transfer

Spec == Init /\ [][Next]_vars

\* The same Tracker under a host that gives every inscription id to at most one
\* inscribe_transfer call; inscribed holds the ids given so far.
InscribeTransferOnce ==
  \E owner \in Owners, i \in InscriptionIds \ inscribed, t \in Tokens, amt \in Amounts :
    LET r == inscribe_transfer(db, owner, i, TransferPayload(t, amt), NoFault) IN
    /\ db' = r.db
    /\ last' = [op |-> "inscribe_transfer", owner |-> owner, inscription_id |-> i,
                token_id |-> t, amount |-> amt, res |-> r.res]
    /\ inscribed' = inscribed \cup {i}
    /\ UNCHANGED manager_vars

NextOnce == Deploy \/ Mint \/ InscribeTransferOnce \/ Transfer

SpecOnce == Init /\ [][NextOnce]_vars

\* ------------------------------------- the InscriptionManager state machine
\* One block: the host records events, then calls process() once; the store
\* may fail at one access during the call.

\* Bounds: the events recorded for a block, the handlers registered.
MaxEvents == 3
NumHandlers == 2

Brc20 == <<"b", "r", "c", "-", "2", "0">>
DeployBody(tick, lim, max) ==
  Some([p |-> Brc20, op |-> "deploy", tick |-> tick, lim |-> lim, max |-> max])
MintBody(tick, amt) == Some([p |-> Brc20, op |-> "mint", tick |-> tick, amt |-> amt])
TransferBody(tick, amt) == Some([p |-> Brc20, op |-> "transfer", tick |-> tick, amt |-> amt])
TxOut(script) == [script_pubkey |-> script]

\* The block applied before this one: transaction p deploys ordi with max 2
\* (inscription 0, sent to B), mints 1 to A (inscription 1) and inscribes a
\* transfer of 1 by A (inscription 2).
G0 == OutPoint("g", 0)
P0 == OutPoint("p", 0)
P1 == OutPoint("p", 1)
PrevTxns ==
  << [txid |-> "p", input |-> <<TxIn(G0)>>, output |-> <<TxOut("A"), TxOut("B")>>,
      inscriptions |-> <<Inscription(DeployBody(Ordi, <<"1">>, <<"2">>)),
                         Inscription(MintBody(Ordi, <<"1">>)),
                         Inscription(TransferBody(Ordi, <<"1">>))>>] >>
PrevEvents ==
  [p |-> << NewEvent(G0, InscriptionId("p", 0), SatPoint(P1)),
            NewEvent(G0, InscriptionId("p", 1), SatPoint(P0)),
            NewEvent(G0, InscriptionId("p", 2), SatPoint(P0)) >>]

\* A manager over empty tables, and the tables the previous block leaves.
Fresh ==
  [outpoint_to_address |-> EmptyTable, handlers |-> [h \in 1..NumHandlers |-> EmptyDb],
   dispatched |-> <<>>, calls |-> <<>>]
Loaded == process(Fresh, PrevTxns, PrevEvents, NoFaultPlan).st

\* The block: a coinbase, t1 spending P0 and P1, t2 spending t1's first output.
\* The third output of t1 carries a script that pays to no address.
T1_0 == OutPoint("t1", 0)
T1_1 == OutPoint("t1", 1)
T1_2 == OutPoint("t1", 2)
Block ==
  << [txid |-> "cb", input |-> <<TxIn(NullOutPoint)>>, output |-> <<TxOut("A")>>,
      inscriptions |-> <<Inscription(MintBody(Ordi, <<"1">>))>>],
     [txid |-> "t1", input |-> <<TxIn(P0), TxIn(P1)>>,
      output |-> <<TxOut("A"), TxOut("B"), TxOut("op_return")>>,
      inscriptions |-> <<Inscription(MintBody(Ordi, <<"1">>)), Inscription(None)>>],
     [txid |-> "t2", input |-> <<TxIn(T1_0)>>, output |-> <<TxOut("B")>>,
      inscriptions |-> <<Inscription(MintBody(Ordi, <<"1">>))>>] >>

\* The events the host may record, per transaction id.
EventsOf ==
  [cb |-> { NewEvent(NullOutPoint, InscriptionId("cb", 0), SatPoint(OutPoint("cb", 0))) },
   t1 |-> { NewEvent(P0, InscriptionId("t1", 0), SatPoint(T1_0)),
            NewEvent(P1, InscriptionId("t1", 1), SatPoint(T1_1)),
            NewEvent(P0, InscriptionId("t1", 2), SatPoint(T1_0)),
            NewEvent(P0, InscriptionId("t1", 0), SatPoint(T1_2)),
            NewEvent(P1, InscriptionId("t1", 0), SatPoint(OutPoint("t1", 3))),
            TransferEvent(SatPoint(P0), SatPoint(T1_1), InscriptionId("p", 2)),
            TransferEvent(SatPoint(P1), SatPoint(T1_0), InscriptionId("p", 2)) },
   t2 |-> { NewEvent(T1_0, InscriptionId("t2", 0), SatPoint(OutPoint("t2", 0))) }]

RECURSIVE SumLen(_, _)
SumLen(tbl, keys) ==
  IF keys = {} THEN 0
  ELSE LET k == CHOOSE x \in keys : TRUE IN Len(tbl[k]) + SumLen(tbl, keys \ {k})
EventCount(all_events) == SumLen(all_events, DOMAIN all_events)

CurrentOutpoints(evs) == {current_outpoint(evs[j]) : j \in 1..Len(evs)}

FaultPlans(all_events) ==
  {NoFaultPlan}
  \cup UNION {{[kind |-> "store", txid |-> t, done |-> d] :
                 d \in (SUBSET CurrentOutpoints(all_events[t])) \ {CurrentOutpoints(all_events[t])}} :
              t \in DOMAIN all_events}
  \cup {[kind |-> "get", at |-> n] : n \in 1..EventCount(all_events)}
  \cup {[kind |-> "tracker", at |-> n, handler |-> h, access |-> a] :
          n \in 1..EventCount(all_events), h \in 1..NumHandlers, a \in 1..6}

InitMgr ==
  /\ db = EmptyDb
  /\ last = NoCall
  /\ txns = Block
  /\ events = EmptyTable
  /\ \E pre \in {Fresh, Loaded} :
       /\ outpoint_to_address = pre.outpoint_to_address
       /\ handlers = pre.handlers
  /\ phase = "recording"
  /\ result = OkResult
  /\ dispatched = <<>>
  /\ calls = <<>>
  /\ inscribed = {}

RecordEvent ==
  /\ phase = "recording"
  /\ EventCount(events) < MaxEvents
  /\ \E txid \in DOMAIN EventsOf : \E e \in EventsOf[txid] :
       events' = record_event(events, txid, e)
  /\ UNCHANGED <<db, last, txns, outpoint_to_address, handlers, phase, result, dispatched, calls, inscribed>>

Process ==
  /\ phase = "recording"
  /\ \E fault \in FaultPlans(events) :
     \E r \in {process([outpoint_to_address |-> outpoint_to_address, handlers |-> handlers,
                        dispatched |-> <<>>, calls |-> <<>>],
                       txns, events, fault)} :
          /\ result' = r.res
          /\ outpoint_to_address' = r.st.outpoint_to_address
          /\ handlers' = r.st.handlers
          /\ dispatched' = r.st.dispatched
          /\ calls' = r.st.calls
          /\ last' = [op |-> "process", fault |-> fault, res |-> r.res.class]
  /\ phase' = "done"
  /\ UNCHANGED <<db, txns, events, inscribed>>

NextMgr == RecordEvent \/ Process

SpecMgr == InitMgr /\ [][NextMgr]_vars

\* ------------------------------------------------- the Balance state machine
\* One Balance object, as Balance::new, Default or Deserialize can produce it,
\* driven by arbitrary calls of its four mutators.  last holds the call, self
\* before it (before) and self after it (self).

Balances ==
  [transferable_balance : Amounts, total_balance : Amounts,
   max : {None} \cup {Some(m) : m \in Amounts}]

InitBal ==
  /\ db = EmptyDb
  /\ \E b \in Balances :
       last = [op |-> "new", amt |-> 0, before |-> b, res |-> "Ok", self |-> b]
  /\ txns = <<>>
  /\ events = EmptyTable
  /\ outpoint_to_address = EmptyTable
  /\ handlers = <<>>
  /\ phase = "idle"
  /\ result = OkResult
  /\ dispatched = <<>>
  /\ calls = <<>>
  /\ inscribed = {}

BalCall(op, amt, r) ==
  /\ last' = [op |-> op, amt |-> amt, before |-> last.self, res |-> r.res, self |-> r.bal]
  /\ UNCHANGED <<db, txns, events, outpoint_to_address, handlers, phase, result,
                 dispatched, calls, inscribed>>

IncrTotal == \E amt \in Amounts : BalCall("incr_total", amt, incr_total(last.self, amt))

DecrTotal == \E amt \in Amounts : BalCall("decr_total", amt, decr_total(last.self, amt))

IncrTransferable ==
  \E amt \in Amounts : BalCall("incr_transferable", amt, incr_transferable(last.self, amt))

DecrTransferable ==
  \E amt \in Amounts : BalCall("decr_transferable", amt, decr_transferable(last.self, amt))

NextBal == IncrTotal \/ DecrTotal \/ IncrTransferable \/ DecrTransferable

SpecBal == InitBal /\ [][NextBal]_vars

\* ------------------------------------------ the event handling state machine
\* The registered handlers over their tables, given one event at a time through
\* InscriptionManager::handle_new and handle_transfer, the store working.
\* calls and result are those of the last event.

Brc20Upper == <<"B", "R", "C", "2", "0">>
Foo == <<"f", "o", "o">>
Abcde == <<"A", "B", "C", "D", "E">>
ProtocolStrings == {Brc20, Brc20Upper, Foo}
TickStrings == {Ordi, Abcde}
AmountStrings == {<<"1">>, <<"2">>, <<"x">>}

\* The inscription bodies given to the handlers: None, or a JSON object with
\* the fields of a deploy, a mint or a transfer.  Every deploy carries the
\* per-mint limit "0".
JsonBody(ps, o, t, a) ==
  IF o = "deploy"
  THEN Some([p |-> ps, op |-> o, tick |-> t, lim |-> <<"0">>, max |-> a])
  ELSE Some([p |-> ps, op |-> o, tick |-> t, amt |-> a])

Ops == {"deploy", "mint", "transfer"}

NewBodies ==
  {None}
  \cup {JsonBody(Brc20, o, t, a) : o \in Ops, t \in TickStrings, a \in AmountStrings}
  \cup {JsonBody(Brc20Upper, o, Ordi, <<"1">>) : o \in Ops}
  \cup {JsonBody(Foo, o, t, <<"1">>) : o \in Ops, t \in TickStrings}
  \cup {JsonBody(Foo, "mint", Ordi, <<"x">>)}

NewIds == {InscriptionId("t", 0)}

InitNew ==
  /\ db = EmptyDb
  /\ last = NoCall
  /\ txns = <<>>
  /\ events = EmptyTable
  /\ outpoint_to_address = EmptyTable
  /\ handlers = [h \in 1..NumHandlers |-> EmptyDb]
  /\ phase = "idle"
  /\ result = OkResult
  /\ dispatched = <<>>
  /\ calls = <<>>
  /\ inscribed = {}

\* What the manager holds when an event reaches handle_new / handle_transfer.
Handling ==
  [outpoint_to_address |-> outpoint_to_address, handlers |-> handlers,
   dispatched |-> <<>>, calls |-> <<>>]

Handled(r) ==
  /\ handlers' = r.st.handlers
  /\ calls' = r.st.calls
  /\ result' = r.res
  /\ UNCHANGED <<db, last, txns, events, outpoint_to_address, phase, dispatched, inscribed>>

HandleNew ==
  \E owner \in Owners, id \in NewIds, body \in NewBodies :
    Handled(handle_new(Handling,
                       [prev_txn_outpoint |-> G0, satpoint |-> SatPoint(P0), owner |-> owner,
                        inscription_id |-> id, inscription |-> Inscription(body)],
                       1, NoFaultPlan))

HandleTransfer ==
  \E from \in Owners, to \in Owners, id \in NewIds :
    Handled(handle_transfer(Handling,
                            [prev_satpoint |-> SatPoint(P0), new_satpoint |-> SatPoint(P1),
                             from |-> from, to |-> to, inscription_id |-> id],
                            1, NoFaultPlan))

NextNew == HandleNew \/ HandleTransfer

SpecNew == InitNew /\ [][NextNew]_vars

\* ------------------------------------------------ the payload state machine
\* One inscription body at a time is deserialized as an InscriptionPayload; a
\* Transfer that was read is written to the transfer table (as_bytes) and read
\* back (from_bytes).

Bitusd == <<"B", "I", "T", "U", "S", "D">>

WholeBodies ==
  {[p |-> ps, op |-> "deploy", tick |-> t, lim |-> l, max |-> a] :
     ps \in ProtocolStrings \cup {<<"0">>}, t \in TickStrings \cup {Bitusd},
     a \in AmountStrings, l \in AmountStrings \cup {<<"+", "1">>}}
  \cup {unwrap(JsonBody(ps, o, t, a)) :
          ps \in ProtocolStrings \cup {<<"0">>}, o \in {"mint", "transfer", "burn"},
          t \in TickStrings \cup {Bitusd}, a \in AmountStrings \cup {<<"+", "1">>, <<>>}}

\* The bodies deserialized: a whole object, or one with a field left out.
ParseBodies ==
  WholeBodies
  \cup {[n \in DOMAIN unwrap(b) \ {d} |-> unwrap(b)[n]] :
          b \in {JsonBody(Brc20, o, Ordi, <<"1">>) : o \in Ops},
          d \in {"p", "op", "tick", "amt", "max"}}

InitParse ==
  /\ db = EmptyDb
  /\ last = NoCall
  /\ txns = <<>>
  /\ events = EmptyTable
  /\ outpoint_to_address = EmptyTable
  /\ handlers = <<>>
  /\ phase = "idle"
  /\ result = OkResult
  /\ dispatched = <<>>
  /\ calls = <<>>
  /\ inscribed = {}

FromSlice ==
  \E body \in ParseBodies :
    /\ last' = [op |-> "from_slice", body |-> body, res |-> from_slice(body)]
    /\ UNCHANGED <<db, txns, events, outpoint_to_address, handlers, phase, result,
                   dispatched, calls, inscribed>>

AsBytes ==
  /\ last.op = "from_slice" /\ last.res.res = "Ok" /\ last.res.value.op = "transfer"
  /\ last' = [op |-> "as_bytes", value |-> last.res.value.payload,
              res |-> "Ok", bytes |-> transfer_as_bytes(last.res.value.payload)]
  /\ UNCHANGED <<db, txns, events, outpoint_to_address, handlers, phase, result,
                 dispatched, calls, inscribed>>

FromBytes ==
  /\ last.op = "as_bytes"
  /\ last' = [op |-> "from_bytes", stored |-> last.value, bytes |-> last.bytes,
              res |-> transfer_from_bytes(last.bytes).res,
              read |-> transfer_from_bytes(last.bytes)]
  /\ UNCHANGED <<db, txns, events, outpoint_to_address, handlers, phase, result,
                 dispatched, calls, inscribed>>

NextParse == FromSlice \/ AsBytes \/ FromBytes

SpecParse == InitParse /\ [][NextParse]_vars

\* ================================================================== claims

RECURSIVE SumOver(_, _, _)
SumOver(tbl, keys, field) ==
  IF keys = {} THEN 0
  ELSE LET k == CHOOSE x \in keys : TRUE IN
       tbl[k][field] + SumOver(tbl, keys \ {k}, field)

UserKeysOf(d, t) == {k \in DOMAIN d.user_balances_table : k.token = t}
SumUserTotal(d, t) == SumOver(d.user_balances_table, UserKeysOf(d, t), "total_balance")

UserRow(d, t, o) == get_user_balance(d, UserBalanceKey(t, o))
HasUserRow(d, t, o) == UserBalanceKey(t, o) \in DOMAIN d.user_balances_table

\* C1: for every deployed token the global total_balance equals the sum of the
\* per-user total_balance rows of that token, after any sequence of operations.
C1_AccountingIdentity ==
  \A t \in DOMAIN db.token_balance_table :
    db.token_balance_table[t].total_balance = SumUserTotal(db, t)

\* C2: a self-transfer (from = to) of a marker {T, a} that the user can cover
\* succeeds, leaves the user's total_balance unchanged and lowers the user's
\* transferable_balance by a.
C2_SelfTransfer ==
  [][(/\ last'.op = "transfer"
      /\ last'.from = last'.to
      /\ last'.inscription_id \in DOMAIN db.token_transfer_table
      /\ LET m == db.token_transfer_table[last'.inscription_id] IN
         UserRow(db, m.token_id, last'.from).transferable_balance >= m.amount)
     =>
     LET m == db.token_transfer_table[last'.inscription_id]
         before == UserRow(db, m.token_id, last'.from)
         after == UserRow(db', m.token_id, last'.from)
     IN /\ last'.res = "Ok"
        /\ after.total_balance = before.total_balance
        /\ after.transferable_balance = before.transferable_balance - m.amount]_vars

\* C3 (I1): every persisted per-user Balance has
\* transferable_balance <= total_balance.
C3_TransferableWithinTotal ==
  \A k \in DOMAIN db.user_balances_table :
    db.user_balances_table[k].transferable_balance <= db.user_balances_table[k].total_balance

\* A user row that earmarks all it holds, written by a successful inscribe_transfer.
C3_Witness ==
  /\ last.op = "inscribe_transfer" /\ last.res = "Ok" /\ last.amount > 0
  /\ \E k \in DOMAIN db.user_balances_table :
        /\ db.user_balances_table[k].transferable_balance = db.user_balances_table[k].total_balance
        /\ db.user_balances_table[k].total_balance > 0

\* C4 (I2): every persisted global token Balance carries the cap given at
\* deploy and has total_balance <= max and transferable_balance <= max.
C4_SupplyCap ==
  \A t \in DOMAIN db.token_balance_table :
    LET b == db.token_balance_table[t] IN
    /\ is_some(b.max)
    /\ b.total_balance <= unwrap(b.max)
    /\ b.transferable_balance <= unwrap(b.max)

\* A mint refused at the cap of a token whose supply is fully minted.
C4_Witness ==
  /\ last.op = "mint" /\ last.res = "ExceedsMaxBalance" /\ last.amount > 0
  /\ LET b == db.token_balance_table[last.token_id] IN
     /\ b.total_balance > 0
     /\ b.total_balance = unwrap(b.max)
     /\ unwrap(b.max) < MaxAmount

IsStorageError(r) ==
  /\ r.class # "Ok"
  /\ \/ r.kind = "Storage"
     \/ r.kind = "BRC20" /\ r.error = "Storage"

\* C5: when a handler returns a NonBlocking error for an event (a protocol
\* validation failure), from handle_new or from handle_transfer, the manager
\* swallows it: process() does not return that error and the next handler, if
\* any, is called for the same event.
C5_NonBlockingSwallowed ==
  phase = "done" =>
    \A i \in 1..Len(calls) :
      (calls[i].res.class = "NonBlocking" /\ ~IsStorageError(calls[i].res)) =>
        /\ ~(i = Len(calls) /\ result = calls[i].res)
        /\ calls[i].handler < Len(handlers) =>
             /\ i < Len(calls)
             /\ calls[i + 1].n = calls[i].n
             /\ calls[i + 1].handler = calls[i].handler + 1

\* C6: process() returns Ok or a Blocking error, never a NonBlocking one.
C6_ProcessResult ==
  phase = "done" => result.class \in {"Ok", "Blocking"}

\* C7: every storage error raised inside a Tracker operation reached through
\* handle_new or handle_transfer is classified Blocking and is what process()
\* returns.
C7_StorageBlocking ==
  phase = "done" =>
    \A i \in 1..Len(calls) :
      IsStorageError(calls[i].res) =>
        /\ calls[i].res.class = "Blocking"
        /\ result = BlockingStorage

\* C8: a transfer of a marker {T, a} with from # to, where from's
\* transferable_balance covers a, succeeds, lowers from's total_balance and
\* transferable_balance by a, raises to's total_balance by a (to's
\* transferable_balance as before, 0 for a new row), removes the marker and
\* leaves the token table unchanged.
C8_Transfer ==
  [][(/\ last'.op = "transfer"
      /\ last'.from # last'.to
      /\ last'.inscription_id \in DOMAIN db.token_transfer_table
      /\ LET m == db.token_transfer_table[last'.inscription_id] IN
         UserRow(db, m.token_id, last'.from).transferable_balance >= m.amount)
     =>
     LET m == db.token_transfer_table[last'.inscription_id]
         from0 == UserRow(db, m.token_id, last'.from)
         to0 == UserRow(db, m.token_id, last'.to)
         from1 == UserRow(db', m.token_id, last'.from)
         to1 == UserRow(db', m.token_id, last'.to)
     IN /\ last'.res = "Ok"
        /\ from1.total_balance = from0.total_balance - m.amount
        /\ from1.transferable_balance = from0.transferable_balance - m.amount
        /\ HasUserRow(db', m.token_id, last'.to)
        /\ to1.total_balance = to0.total_balance + m.amount
        /\ to1.transferable_balance = to0.transferable_balance
        /\ last'.inscription_id \notin DOMAIN db'.token_transfer_table
        /\ db'.token_balance_table = db.token_balance_table]_vars

\* C9: inscribe_transfer(owner, i, {T, a}) succeeds exactly when T is deployed
\* and owner's transferable_balance + a <= owner's total_balance; on success
\* only transferable_balance grows, by a, and the transfer table maps i to {T, a}.
C9_InscribeTransfer ==
  [][last'.op = "inscribe_transfer"
     =>
     LET t == last'.token_id
         a == last'.amount
         b0 == UserRow(db, t, last'.owner)
         b1 == UserRow(db', t, last'.owner)
     IN /\ (last'.res = "Ok") <=>
             (/\ t \in DOMAIN db.token_balance_table
              /\ b0.transferable_balance + a <= b0.total_balance)
        /\ last'.res = "Ok" =>
             /\ b1.transferable_balance = b0.transferable_balance + a
             /\ b1.total_balance = b0.total_balance
             /\ last'.inscription_id \in DOMAIN db'.token_transfer_table
             /\ db'.token_transfer_table[last'.inscription_id] = TransferPayload(t, a)]_vars

\* A successful inscribe_transfer that earmarks everything the owner holds.
C9_Witness ==
  /\ last.op = "inscribe_transfer" /\ last.res = "Ok" /\ last.amount > 0
  /\ UserRow(db, last.token_id, last.owner).transferable_balance
       = UserRow(db, last.token_id, last.owner).total_balance
  /\ db.token_transfer_table[last.inscription_id] = TransferPayload(last.token_id, last.amount)

\* C10 as stated: a mint that would push the token's total above the deployed
\* max fails with ExceedsMaxBalance and writes nothing.
C10_MintPastCap_Original ==
  [][(/\ last'.op = "mint"
      /\ last'.token_id \in DOMAIN db.token_balance_table
      /\ db.token_balance_table[last'.token_id].total_balance + last'.amount
           > unwrap(db.token_balance_table[last'.token_id].max))
     => (last'.res = "ExceedsMaxBalance" /\ db' = db)]_vars

\* C10 amended: such a mint fails and writes nothing; the error is
\* BalanceOverflow when the owner's or the token's total_balance + amount
\* leaves the unsigned range, and ExceedsMaxBalance otherwise.
C10_MintPastCap ==
  [][(/\ last'.op = "mint"
      /\ last'.token_id \in DOMAIN db.token_balance_table
      /\ db.token_balance_table[last'.token_id].total_balance + last'.amount
           > unwrap(db.token_balance_table[last'.token_id].max))
     =>
     LET user0 == UserRow(db, last'.token_id, last'.owner)
         token0 == db.token_balance_table[last'.token_id]
     IN /\ db' = db
        /\ last'.res =
             IF \/ user0.total_balance + last'.amount > MaxAmount
                \/ token0.total_balance + last'.amount > MaxAmount
             THEN "BalanceOverflow" ELSE "ExceedsMaxBalance"]_vars

\* S3: a mint refused with ExceedsMaxBalance for an owner that has no row,
\* while another owner holds the minted supply.
C10_Witness ==
  /\ last.op = "mint" /\ last.res = "ExceedsMaxBalance"
  /\ ~HasUserRow(db, last.token_id, last.owner)
  /\ db.token_balance_table[last.token_id].total_balance > 0

\* C11: deploy of a token_id already in the token table fails with
\* DuplicatedTokenDeployment and changes no table: the token keeps the max of
\* its first deployment and its current total_balance.
C11_DuplicateDeploy ==
  [][(/\ last'.op = "deploy"
      /\ last'.token_id \in DOMAIN db.token_balance_table)
     => (last'.res = "DuplicatedTokenDeployment" /\ db' = db)]_vars

\* A second deploy with another max, refused after a mint.
C11_Witness ==
  /\ last.op = "deploy" /\ last.res = "DuplicatedTokenDeployment"
  /\ last.token_id \in DOMAIN db.token_balance_table
  /\ LET b == db.token_balance_table[last.token_id] IN
     /\ unwrap(b.max) # last.max
     /\ b.total_balance > 0

\* C12: mint and inscribe_transfer on a token_id that is not deployed fail with
\* TokenNotExists and leave the three tables unchanged.
C12_TokenNotExists ==
  [][(/\ last'.op \in {"mint", "inscribe_transfer"}
      /\ last'.token_id \notin DOMAIN db.token_balance_table)
     => (last'.res = "TokenNotExists" /\ db' = db)]_vars

\* An inscribe_transfer refused on the undeployed token: no row, no marker.
C12_Witness ==
  /\ last.op = "inscribe_transfer" /\ last.res = "TokenNotExists"
  /\ last.token_id \notin DOMAIN db.token_balance_table
  /\ db = EmptyDb

\* C13 as stated: an inscribe_transfer on a deployed token whose amount, added
\* to the owner's transferable_balance, exceeds the owner's total_balance fails
\* with InvalidAvailableBalance and writes nothing.
C13_InscribeBeyondTotal_Original ==
  [][(/\ last'.op = "inscribe_transfer"
      /\ last'.token_id \in DOMAIN db.token_balance_table
      /\ UserRow(db, last'.token_id, last'.owner).transferable_balance + last'.amount
           > UserRow(db, last'.token_id, last'.owner).total_balance)
     => (last'.res = "InvalidAvailableBalance" /\ db' = db)]_vars

\* C13 amended: such an inscribe_transfer fails and writes nothing (the owner's
\* row and the transfer table are as before); the error is BalanceUnderflow when
\* transferable_balance + amount leaves the unsigned range, and
\* InvalidAvailableBalance otherwise.
C13_InscribeBeyondTotal ==
  [][(/\ last'.op = "inscribe_transfer"
      /\ last'.token_id \in DOMAIN db.token_balance_table
      /\ UserRow(db, last'.token_id, last'.owner).transferable_balance + last'.amount
           > UserRow(db, last'.token_id, last'.owner).total_balance)
     =>
     /\ db' = db
     /\ last'.res =
          IF UserRow(db, last'.token_id, last'.owner).transferable_balance + last'.amount
               > MaxAmount
          THEN "BalanceUnderflow" ELSE "InvalidAvailableBalance"]_vars

\* S4: an owner holding a balance is refused an inscription of more than it
\* holds, and no marker is stored under the inscription id.
C13_Witness ==
  /\ last.op = "inscribe_transfer" /\ last.res = "InvalidAvailableBalance"
  /\ UserRow(db, last.token_id, last.owner).total_balance > 0
  /\ last.amount > UserRow(db, last.token_id, last.owner).total_balance
  /\ last.inscription_id \notin DOMAIN db.token_transfer_table

\* C14: in the state right after transfer(from, to, i) returned success the
\* transfer table holds no marker for i.
C14_MarkerRemoved ==
  [][(last'.op = "transfer" /\ last'.res = "Ok")
     => last'.inscription_id \notin DOMAIN db'.token_transfer_table]_vars

\* A successful transfer after which the receiver holds the whole supply of
\* the token and the sender's row is empty.
C14_Witness ==
  /\ last.op = "transfer" /\ last.res = "Ok" /\ last.from # last.to
  /\ last.inscription_id \notin DOMAIN db.token_transfer_table
  /\ \E t \in DOMAIN db.token_balance_table :
       /\ HasUserRow(db, t, last.from)
       /\ UserRow(db, t, last.from).total_balance = 0
       /\ UserRow(db, t, last.to).total_balance > 0
       /\ UserRow(db, t, last.to).total_balance = db.token_balance_table[t].total_balance

\* C15: transfer(from, to, i) with no marker for i returns success and leaves
\* the three tables unchanged; a transfer that succeeded, delivered again,
\* succeeds and changes nothing.
C15_TransferNoMarker ==
  \A from \in Owners, to \in Owners, i \in InscriptionIds :
    /\ i \notin DOMAIN db.token_transfer_table
         => transfer(db, from, to, i, NoFault) = TrRes("Ok", db)
    /\ transfer(db, from, to, i, NoFault).res = "Ok"
         => transfer(transfer(db, from, to, i, NoFault).db, from, to, i, NoFault)
              = TrRes("Ok", transfer(db, from, to, i, NoFault).db)

\* A transfer delivered for an inscription id without a marker while balances
\* and another marker are in the tables.
C15_Witness ==
  /\ last.op = "transfer" /\ last.res = "Ok"
  /\ last.inscription_id \notin DOMAIN db.token_transfer_table
  /\ db.token_transfer_table # EmptyTable
  /\ \E k \in DOMAIN db.user_balances_table :
       db.user_balances_table[k].transferable_balance > 0

\* C16: incr_total(a) computes total_balance + a first and reports
\* BalanceOverflow when the sum leaves the unsigned range; only then it
\* compares the sum with the cap and reports ExceedsMaxBalance; an error leaves
\* the three fields unchanged.  On a fresh Balance::new(Some(m)) with a > m the
\* error is ExceedsMaxBalance.
C16_IncrTotal ==
  [][last'.op = "incr_total"
     =>
     LET b == last.self
         a == last'.amt
     IN /\ last'.res =
             IF b.total_balance + a > MaxAmount THEN "BalanceOverflow"
             ELSE IF is_some(b.max) /\ b.total_balance + a > unwrap(b.max)
             THEN "ExceedsMaxBalance" ELSE "Ok"
        /\ last'.res # "Ok" => last'.self = b
        /\ last'.res = "Ok" => last'.self = [b EXCEPT !.total_balance = b.total_balance + a]
        /\ (\E m \in Amounts : b = BalanceNew(Some(m)) /\ a > m)
             => (last'.res = "ExceedsMaxBalance" /\ last'.self = b)]_vars

\* incr_total of more than the cap refused on a fresh Balance::new(Some(m)).
C16_Witness ==
  /\ last.op = "incr_total" /\ last.res = "ExceedsMaxBalance"
  /\ \E m \in Amounts : last.before = BalanceNew(Some(m)) /\ last.amt > m
  /\ last.self = last.before

\* C17: decr_transferable(a) fails with TransferExceedingTotalBalance exactly
\* when a > total_balance, whatever transferable_balance is; with
\* a <= total_balance and a > transferable_balance it fails with BalanceUnderflow.
C17_DecrTransferable ==
  [][last'.op = "decr_transferable"
     =>
     LET b == last.self
         a == last'.amt
     IN /\ (last'.res = "TransferExceedingTotalBalance") <=> (a > b.total_balance)
        /\ (a <= b.total_balance /\ a > b.transferable_balance)
             => last'.res = "BalanceUnderflow"]_vars

\* decr_transferable of an amount the total covers and the transferable part
\* does not.
C17_Witness ==
  /\ last.op = "decr_transferable" /\ last.res = "BalanceUnderflow"
  /\ last.amt <= last.before.total_balance
  /\ last.amt > last.before.transferable_balance

\* The p value names the BRC-20 protocol: brc20, brc-20 or 0, in any case.
ValidProtocolString(ps) ==
  to_lowercase(ps) \in {<<"b", "r", "c", "2", "0">>, <<"b", "r", "c", "-", "2", "0">>, <<"0">>}

\* The amount fields of the body are decimal numbers in range.
ValidAmountStrings(body) ==
  \A n \in {"lim", "max", "amt"} \cap DOMAIN body : is_some(u128_from_str(body[n]))

\* The i-th handler call of the step was refused with error e, no handler's
\* tables changed, every handler was called and the manager returned Ok.
C18_Refused(i, e) ==
  /\ calls'[i].res = from_brc20_error(e)
  /\ handlers' = handlers
  /\ Len(calls') = Len(handlers)
  /\ result' = OkResult

C19_Deserialize ==
  (/\ last.op = "from_slice"
   /\ DOMAIN last.body \in {{"p", "op", "tick", "lim", "max"}, {"p", "op", "tick", "amt"}}
   /\ last.body.p = Brc20
   /\ last.body.op \in {"deploy", "mint"}
   /\ ValidAmountStrings(last.body))
  =>
  last.res =
    IF last.body.op = "deploy"
    THEN ParseOk([op |-> "deploy",
                  payload |-> DeployPayload(TokenId("BRC20", last.body.tick),
                                            unwrap(u128_from_str(last.body.lim)),
                                            unwrap(u128_from_str(last.body.max)))])
    ELSE ParseOk([op |-> "mint",
                  payload |-> MintPayload(TokenId("BRC20", last.body.tick),
                                          unwrap(u128_from_str(last.body.amt)))])

\* C20 as stated: every InscriptionPayload read from valid inputs has a
\* serialization, and deserializing it gives the payload back.
C20_RoundTrip_Original ==
  (last.op = "from_slice" /\ last.res.res = "Ok")
  =>
  /\ is_some(payload_serialize(last.res.value))
  /\ from_slice(unwrap(payload_serialize(last.res.value))) = last.res

\* C20 amended: every Transfer {token_id, amount} read from valid inputs and
\* written to the transfer table is read back with the same token_id and amount.
C20_RoundTrip ==
  /\ (last.op = "from_slice" /\ last.res.res = "Ok" /\ last.res.value.op = "transfer")
       => transfer_from_bytes(transfer_as_bytes(last.res.value.payload))
            = ParseOk(last.res.value.payload)
  /\ last.op = "from_bytes" => last.read = ParseOk(last.stored)

\* A marker of a positive amount read back from its bytes, which spell the
\* protocol as the variant name.
C20_Witness ==
  /\ last.op = "from_bytes" /\ last.res = "Ok"
  /\ last.read.value = last.stored
  /\ last.stored.amount > 0
  /\ last.bytes.p = Brc20Upper

\* C21: a transfer(from, to, i) that finds a marker {T, a} which from's Balance
\* cannot cover fails with TransferExceedingTotalBalance when a > total_balance
\* and with BalanceUnderflow when a <= total_balance but a > transferable_balance,
\* and writes nothing: the user table, the token table and the marker for i are
\* as before.
C21_TransferUncovered ==
  [][(/\ last'.op = "transfer"
      /\ last'.inscription_id \in DOMAIN db.token_transfer_table
      /\ LET m == db.token_transfer_table[last'.inscription_id]
             b == UserRow(db, m.token_id, last'.from)
         IN m.amount > b.total_balance \/ m.amount > b.transferable_balance)
     =>
     LET m == db.token_transfer_table[last'.inscription_id]
         b == UserRow(db, m.token_id, last'.from)
     IN /\ last'.res = IF m.amount > b.total_balance
                       THEN "TransferExceedingTotalBalance" ELSE "BalanceUnderflow"
        /\ db'.user_balances_table = db.user_balances_table
        /\ db'.token_balance_table = db.token_balance_table
        /\ db'.token_transfer_table = db.token_transfer_table]_vars

\* A transfer refused with BalanceUnderflow: the sender holds the amount of the
\* marker but has not earmarked it, and the marker is still stored.
C21_Witness ==
  /\ last.op = "transfer" /\ last.res = "BalanceUnderflow"
  /\ last.inscription_id \in DOMAIN db.token_transfer_table
  /\ LET m == db.token_transfer_table[last.inscription_id]
         b == UserRow(db, m.token_id, last.from)
     IN /\ m.amount > 0
        /\ m.amount <= b.total_balance
        /\ m.amount > b.transferable_balance

\* The longest prefix of evs whose events all have prev_outpoint o.
C22_Matching(evs, o) ==
  LET k == CHOOSE n \in 0..Len(evs) :
             /\ \A j \in 1..n : prev_outpoint(evs[j]) = o
             /\ n = Len(evs) \/ prev_outpoint(evs[n + 1]) # o
  IN SubSeq(evs, 1, k)

RECURSIVE C22_OfInputs(_, _, _)
C22_OfInputs(txn, i, evs) ==
  IF i > Len(txn.input) THEN <<>>
  ELSE C22_Matching(evs, txn.input[i].previous_output) \o C22_OfInputs(txn, i + 1, evs)

RECURSIVE C22_OfTxns(_)
C22_OfTxns(k) ==
  IF k > Len(txns) THEN <<>>
  ELSE (IF is_coinbase(txns[k]) \/ txns[k].txid \notin DOMAIN events THEN <<>>
        ELSE C22_OfInputs(txns[k], 1, events[txns[k].txid]))
       \o C22_OfTxns(k + 1)

C22_IsPrefix(s, t) == Len(s) <= Len(t) /\ SubSeq(t, 1, Len(s)) = s

\* C22: process() dispatches in this order: the transactions in the order of
\* the caller's list; within a transaction the inputs in order; for each input
\* the recorded events from the first in record_event order, each dispatched
\* while its prev_outpoint equals the input's previous_output, the scan for the
\* input ending at the first event that does not match.  A call that returns Ok
\* has dispatched that whole sequence, one that returns an error a prefix of it.
C22_DispatchOrder ==
  phase = "done" =>
    /\ C22_IsPrefix(dispatched, C22_OfTxns(1))
    /\ result.class = "Ok" => dispatched = C22_OfTxns(1)

\* A block processed to the end in which an event of the second input of t1 was
\* dispatched, then the event of t2, while an event recorded for t1 behind one
\* that does not match its input was never dispatched.
C22_Witness ==
  /\ phase = "done" /\ result.class = "Ok"
  /\ Len(dispatched) = 2
  /\ prev_outpoint(dispatched[1]) = P1
  /\ prev_outpoint(dispatched[2]) = T1_0
  /\ "t1" \in DOMAIN events /\ Len(events["t1"]) = 2
  /\ prev_outpoint(events["t1"][2]) = P0

\* The transaction of the caller's list with the given txid.
C23_Txn(txid) == txns[CHOOSE k \in 1..Len(txns) : txns[k].txid = txid]

\* C23: whenever an event of a transaction is given to a handler, the
\* outpoint-to-address table already maps the current outpoint of every event
\* recorded for that transaction, dispatched later or never, to the address
\* derived from the transaction output at that outpoint's vout, and the owner
\* (handle_new) or to address (handle_transfer) passed to the handler is the
\* address the table holds for the event's own current outpoint.
C23_OwnershipsStored ==
  phase = "done" =>
    \A i \in 1..Len(calls) :
      LET c == calls[i]
          e == dispatched[c.n]
          txid == current_outpoint(e).txid
      IN /\ \A j \in 1..Len(events[txid]) :
              LET o == current_outpoint(events[txid][j]) IN
              /\ o \in DOMAIN c.table
              /\ Some(c.table[o])
                   = address_from_script(C23_Txn(txid).output[o.vout + 1].script_pubkey)
         /\ (IF c.call = "handle_new" THEN c.event.owner ELSE c.event.to)
              = c.table[current_outpoint(e)]

\* A handler was given the first event of t1 while a second event recorded
\* for t1, at another output, was never dispatched: its outpoint was stored
\* before that call.
C23_Witness ==
  /\ phase = "done"
  /\ Len(dispatched) = 1 /\ Len(calls) > 0
  /\ "t1" \in DOMAIN events /\ Len(events["t1"]) = 2
  /\ dispatched[1] = events["t1"][1]
  /\ current_outpoint(events["t1"][1]) = T1_0
  /\ current_outpoint(events["t1"][2]) = T1_1
  /\ T1_1 \in DOMAIN calls[1].table
  /\ calls[1].table[T1_1] = "B"

\* C24: a Transfer event whose prev_satpoint.outpoint has no entry in the
\* outpoint-to-address table (none at the end of the call, hence none when it
\* was looked up), the lookup itself working: process() returns the Blocking
\* error OutpointNotFound for that outpoint, the event is the last one
\* dispatched, no handler is called for it, and when it is the first event of
\* the block no handler's tables change.
C24_TransferFromMissing ==
  [][phase' = "done" =>
       \A n \in 1..Len(dispatched') :
         LET e == dispatched'[n] IN
         (/\ e.type = "Transfer"
          /\ e.prev_satpoint.outpoint \notin DOMAIN outpoint_to_address'
          /\ ~(last'.fault.kind = "get" /\ last'.fault.at = n))
         =>
         /\ result' = BlockingOutpointNotFound(e.prev_satpoint.outpoint)
         /\ n = Len(dispatched')
         /\ \A i \in 1..Len(calls') : calls'[i].n # n
         /\ n = 1 => handlers' = handlers]_vars

\* process() gave a New event to the handlers and then stopped at a Transfer
\* event whose previous outpoint has no stored address.
C24_Witness ==
  /\ phase = "done"
  /\ Len(dispatched) = 2
  /\ dispatched[1].type = "New"
  /\ dispatched[2].type = "Transfer"
  /\ dispatched[2].prev_satpoint.outpoint \notin DOMAIN outpoint_to_address
  /\ result = BlockingOutpointNotFound(dispatched[2].prev_satpoint.outpoint)
  /\ Len(calls) = Len(handlers)

\* process() reaches the k-th transaction without having dispatched anything:
\* every earlier one is a coinbase or has no recorded events.
C25_Reached(k) ==
  \A j \in 1..(k - 1) : is_coinbase(txns[j]) \/ txns[j].txid \notin DOMAIN events

C25_MissingOutput(txn, e) == current_outpoint(e).vout >= Len(txn.output)

C25_NoAddress(txn, e) ==
  /\ ~C25_MissingOutput(txn, e)
  /\ ~is_some(address_from_script(txn.output[current_outpoint(e).vout + 1].script_pubkey))

C25_KeysOf(table, txid) == {o \in DOMAIN table : o.txid = txid}

\* C25 as stated: a transaction that process() reaches with an event whose
\* current outpoint's vout is not an index of its outputs makes process()
\* return the Blocking error OutpointNotFound, with no outpoint-to-address
\* entry persisted and no event dispatched for it.
C25_MissingOutput_Original ==
  [][phase' = "done" =>
       \A k \in 1..Len(txns) :
         (/\ ~is_coinbase(txns[k]) /\ C25_Reached(k)
          /\ txns[k].txid \in DOMAIN events
          /\ \E j \in 1..Len(events[txns[k].txid]) :
               C25_MissingOutput(txns[k], events[txns[k].txid][j]))
         =>
         /\ result'.class = "Blocking" /\ result'.kind = "OutpointNotFound"
         /\ C25_KeysOf(outpoint_to_address', txns[k].txid)
              = C25_KeysOf(outpoint_to_address, txns[k].txid)
         /\ dispatched' = <<>>]_vars

\* C25 amended: for such a transaction process() returns a Blocking error,
\* persists no outpoint-to-address entry and dispatches no event of it; the
\* error is that of the first event in record order whose output is missing or
\* has a script without an address: OutpointNotFound for that event's current
\* outpoint in the first case, InvalidAddressNetwork in the second.
C25_MissingOutputBlocks ==
  [][phase' = "done" =>
       \A k \in 1..Len(txns) :
         (/\ ~is_coinbase(txns[k]) /\ C25_Reached(k)
          /\ txns[k].txid \in DOMAIN events
          /\ \E j \in 1..Len(events[txns[k].txid]) :
               C25_MissingOutput(txns[k], events[txns[k].txid][j]))
         =>
         LET evs == events[txns[k].txid]
             first == CHOOSE j \in 1..Len(evs) :
                        /\ C25_MissingOutput(txns[k], evs[j]) \/ C25_NoAddress(txns[k], evs[j])
                        /\ \A i \in 1..(j - 1) :
                             /\ ~C25_MissingOutput(txns[k], evs[i])
                             /\ ~C25_NoAddress(txns[k], evs[i])
         IN /\ result' = IF C25_MissingOutput(txns[k], evs[first])
                         THEN BlockingOutpointNotFound(current_outpoint(evs[first]))
                         ELSE BlockingInvalidAddressNetwork
            /\ C25_KeysOf(outpoint_to_address', txns[k].txid)
                 = C25_KeysOf(outpoint_to_address, txns[k].txid)
            /\ dispatched' = <<>>]_vars

\* t1 has an event at its first output followed by one at a missing output:
\* process() returned OutpointNotFound for the latter, stored no outpoint of t1
\* and dispatched nothing.
C25_Witness ==
  /\ phase = "done"
  /\ "t1" \in DOMAIN events /\ Len(events["t1"]) = 2
  /\ current_outpoint(events["t1"][1]) = T1_0
  /\ current_outpoint(events["t1"][2]) = OutPoint("t1", 3)
  /\ prev_outpoint(events["t1"][1]) = P0
  /\ result = BlockingOutpointNotFound(OutPoint("t1", 3))
  /\ C25_KeysOf(outpoint_to_address, "t1") = {}
  /\ dispatched = <<>>

\* The Blocking error track_outpoint_ownerships raises for the k-th
\* transaction under the fault plan of the call, None when it raises none.
C26_TrackingError(k) ==
  LET txn == txns[k]
      evs == events[txn.txid]
      failing == {j \in 1..Len(evs) :
                    C25_MissingOutput(txn, evs[j]) \/ C25_NoAddress(txn, evs[j])}
  IN IF failing # {}
     THEN LET first == CHOOSE j \in failing : \A i \in failing : j <= i IN
          IF C25_MissingOutput(txn, evs[first])
          THEN Some(BlockingOutpointNotFound(current_outpoint(evs[first])))
          ELSE Some(BlockingInvalidAddressNetwork)
     ELSE IF last.fault.kind = "store" /\ last.fault.txid = txn.txid
     THEN Some(BlockingStorage)
     ELSE None

\* The Blocking error process_event raises for e as the n-th dispatched event
\* before any handler is called, None when it raises none.
C26_EventError(n, e) ==
  IF e.type # "Transfer" THEN None
  ELSE IF last.fault.kind = "get" /\ last.fault.at = n THEN Some(BlockingStorage)
  ELSE IF e.prev_satpoint.outpoint \notin DOMAIN outpoint_to_address
  THEN Some(BlockingOutpointNotFound(e.prev_satpoint.outpoint))
  ELSE None

\* The first Blocking error on the way of process() when no other error stops
\* it earlier: the error, the number of events dispatched when it is raised,
\* and whether process_event raised it (for its last dispatched event).
RECURSIVE C26_FirstBlocking(_, _)
C26_FirstBlocking(k, n) ==
  IF k > Len(txns) THEN None
  ELSE IF is_coinbase(txns[k]) \/ txns[k].txid \notin DOMAIN events
  THEN C26_FirstBlocking(k + 1, n)
  ELSE IF is_some(C26_TrackingError(k))
  THEN Some([err |-> unwrap(C26_TrackingError(k)), pos |-> n, event |-> FALSE])
  ELSE LET seq == C22_OfInputs(txns[k], 1, events[txns[k].txid])
           failing == {j \in 1..Len(seq) : is_some(C26_EventError(n + j, seq[j]))}
       IN IF failing # {}
          THEN LET first == CHOOSE j \in failing : \A i \in failing : j <= i IN
               Some([err |-> unwrap(C26_EventError(n + first, seq[first])),
                     pos |-> n + first, event |-> TRUE])
          ELSE C26_FirstBlocking(k + 1, n + Len(seq))

\* C26: process() stops at the first Blocking error.  When processing arrives
\* at it (no NonBlocking error was returned before), that error is the return
\* value of process(), the events dispatched are exactly those before it (and
\* the failing event itself when process_event raised the error), and no
\* handler is called for the failing event, for a later event of the
\* transaction or for an event of a later transaction.  Without such an error
\* process() returns no Blocking error.
C26_StopsAtBlocking ==
  phase = "done" =>
    LET b == C26_FirstBlocking(1, 0) IN
    /\ ~is_some(b) => result.class # "Blocking"
    /\ is_some(b) =>
         /\ result.class # "Ok"
         /\ result.class = "NonBlocking" =>
              /\ Len(dispatched) <= unwrap(b).pos
              /\ unwrap(b).event => Len(dispatched) < unwrap(b).pos
         /\ result.class = "Blocking" =>
              /\ result = unwrap(b).err
              /\ Len(dispatched) = unwrap(b).pos
              /\ \A i \in 1..Len(calls) :
                   /\ calls[i].n <= unwrap(b).pos
                   /\ unwrap(b).event => calls[i].n < unwrap(b).pos

\* process() gave the first event of t1 to the handlers, stopped with a
\* Blocking error at the second, and the event recorded for t2 was never
\* dispatched.
C26_Witness ==
  /\ phase = "done" /\ result.class = "Blocking"
  /\ "t1" \in DOMAIN events /\ Len(events["t1"]) = 2
  /\ "t2" \in DOMAIN events
  /\ Len(dispatched) = 2
  /\ dispatched = events["t1"]
  /\ Len(calls) = Len(handlers)
  /\ \A i \in 1..Len(calls) : calls[i].n = 1

\* The first input of txn has a null previous output.
C27_Coinbase(txn) == Len(txn.input) > 0 /\ txn.input[1].previous_output = NullOutPoint

\* C27: process() skips a transaction whose first input has a null previous
\* output: none of the events recorded under its txid is dispatched and no
\* outpoint-to-address entry of it is written; processing goes on with the
\* next transaction, whose first recorded event is dispatched when it matches
\* its first input and its outputs resolve.
C27_CoinbaseSkipped ==
  [][phase' = "done" =>
       \A k \in 1..Len(txns) :
         (C27_Coinbase(txns[k]) /\ txns[k].txid \in DOMAIN events)
         =>
         /\ \A n \in 1..Len(dispatched') : \A j \in 1..Len(events[txns[k].txid]) :
              dispatched'[n] # events[txns[k].txid][j]
         /\ C25_KeysOf(outpoint_to_address', txns[k].txid)
              = C25_KeysOf(outpoint_to_address, txns[k].txid)
         /\ \A m \in (k + 1)..Len(txns) :
              (/\ \A i \in 1..(m - 1) :
                    C27_Coinbase(txns[i]) \/ txns[i].txid \notin DOMAIN events
               /\ ~C27_Coinbase(txns[m])
               /\ txns[m].txid \in DOMAIN events
               /\ last'.fault.kind # "store"
               /\ \A j \in 1..Len(events[txns[m].txid]) :
                    /\ ~C25_MissingOutput(txns[m], events[txns[m].txid][j])
                    /\ ~C25_NoAddress(txns[m], events[txns[m].txid][j])
               /\ prev_outpoint(events[txns[m].txid][1]) = txns[m].input[1].previous_output)
              =>
              /\ dispatched' # <<>>
              /\ dispatched'[1] = events[txns[m].txid][1]]_vars

\* Events were recorded for the coinbase and for t1: process() dispatched the
\* event of t1 and stored its outpoint, and did neither for the coinbase.
C27_Witness ==
  /\ phase = "done" /\ result.class = "Ok"
  /\ "cb" \in DOMAIN events /\ "t1" \in DOMAIN events
  /\ Len(dispatched) = 1
  /\ dispatched[1] = events["t1"][1]
  /\ C25_KeysOf(outpoint_to_address, "cb") = {}
  /\ C25_KeysOf(outpoint_to_address, "t1") # {}

\* C28: the per-mint limit given at deploy is not enforced.  Every token of the
\* event handling machine is deployed with limit 0; a mint of an amount a > 0
\* with the token's total_balance + a <= max succeeds and credits a in full to
\* the owner's row and to the token's row.
C28_LimitNotEnforced ==
  [][\A i \in 1..Len(calls') :
       LET c == calls'[i]
           body == c.event.inscription.body
       IN (/\ c.call = "handle_new"
           /\ is_some(body)
           /\ from_slice(unwrap(body)).res = "Ok"
           /\ from_slice(unwrap(body)).value.op = "mint"
           /\ LET m == from_slice(unwrap(body)).value.payload
                  d == handlers[c.handler]
              IN /\ m.token_id \in DOMAIN d.token_balance_table
                 /\ m.amount > 0
                 /\ d.token_balance_table[m.token_id].total_balance + m.amount
                      <= unwrap(d.token_balance_table[m.token_id].max))
          =>
          LET m == from_slice(unwrap(body)).value.payload
              d0 == handlers[c.handler]
              d1 == handlers'[c.handler]
          IN /\ c.res = OkResult
             /\ UserRow(d1, m.token_id, c.event.owner).total_balance
                  = UserRow(d0, m.token_id, c.event.owner).total_balance + m.amount
             /\ d1.token_balance_table[m.token_id].total_balance
                  = d0.token_balance_table[m.token_id].total_balance + m.amount]_vars

\* C29: incr_transferable(amt) checks in this order, with these errors:
\* transferable_balance + amt beyond the unsigned range gives BalanceUnderflow;
\* else max set and the sum above max gives ExceedsMaxBalance; else the sum
\* above total_balance gives InvalidAvailableBalance; else it succeeds with
\* transferable_balance equal to the sum, total_balance and max as before.
C29_IncrTransferable ==
  [][last'.op = "incr_transferable"
     =>
     LET b == last'.before
         sum == b.transferable_balance + last'.amt
     IN /\ last'.res =
             IF sum > MaxAmount THEN "BalanceUnderflow"
             ELSE IF is_some(b.max) /\ sum > unwrap(b.max) THEN "ExceedsMaxBalance"
             ELSE IF sum > b.total_balance THEN "InvalidAvailableBalance"
             ELSE "Ok"
        /\ last'.res = "Ok" =>
             last'.self = [b EXCEPT !.transferable_balance = sum]]_vars

\* An incr_transferable refused with ExceedsMaxBalance whose sum is within the
\* unsigned range and is above total_balance as well as above max.
C29_Witness ==
  /\ last.op = "incr_transferable" /\ last.res = "ExceedsMaxBalance"
  /\ last.before.transferable_balance + last.amt <= MaxAmount
  /\ last.before.transferable_balance + last.amt > last.before.total_balance
  /\ last.before.transferable_balance > 0

\* C30: a New inscription event whose inscription has no body is ignored by
\* the BRC-20 handler: handle_new returns Ok and the handler's three tables
\* are as before.
C30_NoBodyIgnored ==
  [][\A i \in 1..Len(calls') :
       (/\ calls'[i].call = "handle_new"
        /\ ~is_some(calls'[i].event.inscription.body))
       =>
       /\ calls'[i].res = OkResult
       /\ handlers'[calls'[i].handler] = handlers[calls'[i].handler]]_vars

\* A New event without a body was handled over tables that hold a deployed
\* token, a user row and a transfer marker.
C30_Witness ==
  /\ Len(calls) = Len(handlers) /\ Len(calls) > 0
  /\ calls[1].call = "handle_new"
  /\ ~is_some(calls[1].event.inscription.body)
  /\ calls[1].res = OkResult
  /\ DOMAIN handlers[1].token_balance_table # {}
  /\ DOMAIN handlers[1].user_balances_table # {}
  /\ DOMAIN handlers[1].token_transfer_table # {}

\* The number of positions of the sequence s that hold e.
C31_Count(s, e) == Cardinality({j \in 1..Len(s) : s[j] = e})

C31_Inputs(txn) == {txn.input[i].previous_output : i \in 1..Len(txn.input)}

C31_DistinctInputs(txn) == Cardinality(C31_Inputs(txn)) = Len(txn.input)

\* The events recorded for the k-th transaction, none for a coinbase or for a
\* transaction without recorded events.
C31_Recorded(k) ==
  IF is_coinbase(txns[k]) \/ txns[k].txid \notin DOMAIN events THEN <<>>
  ELSE events[txns[k].txid]

\* C31: after a process() call that met no Blocking error, every event recorded
\* for a non-coinbase transaction with pairwise distinct input outpoints, whose
\* prev_outpoint is the previous_output of one of its inputs, was dispatched
\* exactly once, whatever the order of the record_event calls: it occurs in the
\* dispatched sequence as often as it was recorded.
C31_DispatchedOnce ==
  (phase = "done" /\ result.class # "Blocking") =>
    \A k \in 1..Len(txns) :
      C31_DistinctInputs(txns[k]) =>
        \A j \in 1..Len(C31_Recorded(k)) :
          prev_outpoint(C31_Recorded(k)[j]) \in C31_Inputs(txns[k]) =>
            C31_Count(dispatched, C31_Recorded(k)[j])
              = C31_Count(C31_Recorded(k), C31_Recorded(k)[j])

C32_Mutators == {"incr_total", "decr_total", "incr_transferable", "decr_transferable"}

\* C32 as stated: a Balance operation that returns an error leaves
\* total_balance, transferable_balance and max as they were before the call.
C32_ErrorUnchanged_Original ==
  (last.op \in C32_Mutators /\ last.res # "Ok") => last.self = last.before

\* C32: a Balance operation that returns an error leaves total_balance and max
\* as they were before the call.  transferable_balance is as before too, unless
\* the error is InvalidAvailableBalance: that check runs after the assignment,
\* so transferable_balance then holds the new value, the sum for
\* incr_transferable and the difference for decr_transferable.
C32_ErrorUnchanged ==
  (last.op \in C32_Mutators /\ last.res # "Ok") =>
    /\ last.self.total_balance = last.before.total_balance
    /\ last.self.max = last.before.max
    /\ last.self.transferable_balance =
         IF last.res # "InvalidAvailableBalance" THEN last.before.transferable_balance
         ELSE IF last.op = "incr_transferable"
         THEN last.before.transferable_balance + last.amt
         ELSE last.before.transferable_balance - last.amt

\* An incr_transferable that failed the I1 check and left the raised
\* transferable_balance in the object.
C32_Witness ==
  /\ last.op = "incr_transferable" /\ last.res = "InvalidAvailableBalance"
  /\ last.amt > 0
  /\ last.self.transferable_balance = last.before.transferable_balance + last.amt
  /\ last.self.transferable_balance > last.self.total_balance

C33_MarkersOf(d, t) ==
  {i \in DOMAIN d.token_transfer_table : d.token_transfer_table[i].token_id = t}

C33_SumTransferable(d, t) ==
  SumOver(d.user_balances_table, UserKeysOf(d, t), "transferable_balance")

C33_SumMarkers(d, t) == SumOver(d.token_transfer_table, C33_MarkersOf(d, t), "amount")

\* C33: when every inscription id is given to at most one inscribe_transfer,
\* after any sequence of Tracker operations, self-transfers and transfers from
\* any address included, the transferable_balance of all users of a token adds
\* up to the amounts of the markers for that token in the transfer table.
C33_TransferableMatchesMarkers ==
  \A t \in Tokens : C33_SumTransferable(db, t) = C33_SumMarkers(db, t)

\* C34: the token table is written by deploy and mint only.  inscribe_transfer
\* and transfer, successful or failing, leave every global token Balance as it
\* was; a deployed token is never removed, its max never changes and its
\* total_balance never decreases, in any step; its global transferable_balance
\* stays 0.  deploy leaves the user balance table and the transfer table as
\* they were.
C34_TokenTableFrame ==
  [][/\ last'.op \in {"inscribe_transfer", "transfer"} =>
          db'.token_balance_table = db.token_balance_table
     /\ last'.op = "deploy" =>
          /\ db'.user_balances_table = db.user_balances_table
          /\ db'.token_transfer_table = db.token_transfer_table
     /\ \A t \in DOMAIN db.token_balance_table :
          /\ t \in DOMAIN db'.token_balance_table
          /\ db'.token_balance_table[t].max = db.token_balance_table[t].max
          /\ db'.token_balance_table[t].total_balance >= db.token_balance_table[t].total_balance
     /\ \A t \in DOMAIN db'.token_balance_table :
          db'.token_balance_table[t].transferable_balance = 0]_vars

\* A transfer between two owners that moved a positive amount, the marker gone
\* and the receiver credited, over a token with minted supply.
C34_Witness ==
  /\ last.op = "transfer" /\ last.res = "Ok" /\ last.from # last.to
  /\ last.inscription_id \notin DOMAIN db.token_transfer_table
  /\ \E t \in DOMAIN db.token_balance_table :
       /\ db.token_balance_table[t].total_balance > 0
       /\ HasUserRow(db, t, last.to) /\ UserRow(db, t, last.to).total_balance > 0
       /\ HasUserRow(db, t, last.from)
       /\ UserRow(db, t, last.from).total_balance < db.token_balance_table[t].total_balance

====
